---- MODULE Spec2Model ----
(***************************************************************************)
(* LeadGen: the opportunity scan of DataCollector (retry loop, extractors, *)
(* deduplication), the office validator and the lead scorer.               *)
(*                                                                         *)
(* Texts are abstracted to what the code asks of them: an extractor item   *)
(* carries its stripped text, its href and whether a relevance keyword is  *)
(* a substring of it.  Time is counted in the units of the retry backoff.  *)
(***************************************************************************)
EXTENDS Integers, Sequences, FiniteSets, TLC

VARIABLES
    pc,             \* position of scan_opportunities: request, sleep, return, done, raised
    src,            \* index into SourceOrder of the source being scanned
    attempt,        \* loop variable of `for attempt in range(3)`
    opportunities,  \* the list accumulated by scan_opportunities
    source_opps,    \* per source, the list its extractor returned (<<>> before)
    requests,       \* per source, the outcomes of the session.get calls issued so far
    elapsed,        \* time units spent since the first request of the scan
    result,         \* the list returned to the caller
    dd_pc,          \* deduplicator harness: in, once, twice
    dd_in,          \* argument of _deduplicate_opportunities
    dd_out,         \* its return value
    dd_again,       \* the return value of a second application to dd_out
    vo_pc,          \* office validator harness: in, out
    office,         \* argument of _validate_office, a sequence of characters
    vresult,        \* the ValidationResult it returned
    sc_pc,          \* LeadScorer harness: ready, returned, raised
    lead,           \* argument of score_lead
    sresult,        \* the dict score_lead returned
    partnership_details,    \* the attribute self.partnership_details, NoDetails while unset
    fr_pc,          \* _validate_field_relationships harness: in, returned, raised
    contact,        \* its argument, as it is before the call
    fr_warnings,    \* contact['validation']['warnings'] after the call
    gl_pc,          \* get_leads harness for one opportunity: in, out
    agency,         \* opp.get('agency', ''), a sequence of characters
    lead_agency,    \* the 'agency' of the lead built from it
    ex_pc,          \* extractor harness: in, out
    extractor,      \* the extractor called
    ex_items,       \* the items of the payload it is given, in payload order
    ex_out,         \* [raised, opps]: what the call ended with
    agency_cache,   \* self.agency_cache: a map from some URLs to details
    fd_pc,          \* per caller of _fetch_agency_details: idle, get, text, done
    fd_url,         \* per caller, the agency_url of its call
    fd_status,      \* per caller, how its request ended: "", 200, 500, raised
    fd_ret,         \* per caller, the value its call returned
    fd_requests,    \* per URL, the number of session.get calls issued for it
    fd_with         \* per caller, the callers whose requests for the same URL were
                    \* in flight at some moment of its call (history)

scanVars == <<pc, src, attempt, opportunities, source_opps, requests, elapsed, result>>
ddVars == <<dd_pc, dd_in, dd_out, dd_again>>
voVars == <<vo_pc, office, vresult>>
scVars == <<sc_pc, lead, sresult, partnership_details>>
frVars == <<fr_pc, contact, fr_warnings>>
glVars == <<gl_pc, agency, lead_agency>>
exVars == <<ex_pc, extractor, ex_items, ex_out>>
fdVars == <<agency_cache, fd_pc, fd_url, fd_status, fd_ret, fd_requests, fd_with>>
vars == <<scanVars, ddVars, voVars, scVars, frVars, glVars, exVars, fdVars>>

(***************************************************************************)
(* Bounds of the model.                                                    *)
(***************************************************************************)
MaxItems == 2       \* items (links, cards, articles) in one fetched payload
MaxLen == 3         \* length of a deduplicator input
MaxOfficeLen == 6   \* length of an enumerated office string
MaxActs == 2        \* length of a lead's recent_activities
FastLatency == 1    \* duration of a request that is answered before the timeout

(***************************************************************************)
(* Program constants.                                                      *)
(***************************************************************************)
TIMEOUT_TOTAL == 30     \* aiohttp.ClientTimeout(total=30)
BACKOFF == 1            \* asyncio.sleep(1)
LAST_ATTEMPT == 2       \* `if attempt == 2`, the last index of range(3)

SourceOrder == <<"usa.gov", "challenge.gov", "digital.gov">>
Sources == {SourceOrder[i] : i \in 1..Len(SourceOrder)}

(***************************************************************************)
(* Helpers for Python lists and dicts.                                     *)
(***************************************************************************)
Get(d, k, default) == IF k \in DOMAIN d THEN d[k] ELSE default

\* marks a key that a dict does not have, where dicts are enumerated
Absent == "<absent>"

RECURSIVE SeqsUpTo(_, _)
SeqsUpTo(S, n) ==
    IF n = 0 THEN {<<>>}
    ELSE LET shorter == SeqsUpTo(S, n - 1)
         IN shorter \cup {Append(s, x) : s \in {t \in shorter : Len(t) = n - 1}, x \in S}

IdStr(n) == <<"0", "1", "2", "3", "4", "5">>[n + 1]

\* urljoin(base, href): an href with its own origin is kept, a relative one is
\* resolved against the base.  A URL is <<origin, path>>; '' is <<"", "">>.
NoHref == <<>>
EmptyUrl == <<"", "">>
Urljoin(base, href) == IF href[1] = "" THEN <<base, href[2]>> ELSE href

(***************************************************************************)
(* Python strings: case, and the substring test.                           *)
(***************************************************************************)
Lowers == <<"a", "b", "c", "d", "e", "f", "g", "h", "i", "j", "k", "l", "m", "n", "o", "p", "q", "r", "s", "t", "u", "v", "w", "x", "y", "z">>
Uppers == <<"A", "B", "C", "D", "E", "F", "G", "H", "I", "J", "K", "L", "M", "N", "O", "P", "Q", "R", "S", "T", "U", "V", "W", "X", "Y", "Z">>

\* str.isupper() of one character
IsUpper(c) == \E i \in 1..Len(Uppers) : Uppers[i] = c

\* str.upper() of one character
Upper(c) == IF \E i \in 1..Len(Lowers) : Lowers[i] = c
            THEN Uppers[CHOOSE i \in 1..Len(Lowers) : Lowers[i] = c]
            ELSE c

\* sub occurs at position i of str
OccursAt(sub, str, i) == i + Len(sub) - 1 <= Len(str) /\ SubSeq(str, i, i + Len(sub) - 1) = sub

\* `sub in str`
Contains(str, sub) == \E i \in 1..(Len(str) + 1) : OccursAt(sub, str, i)

\* str.lower()
LowerChar(c) == IF \E i \in 1..Len(Uppers) : Uppers[i] = c
                THEN Lowers[CHOOSE i \in 1..Len(Uppers) : Uppers[i] = c]
                ELSE c

RECURSIVE Lower(_)
Lower(str) ==
    IF Len(str) = 0 THEN ""
    ELSE IF Len(str) = 1 THEN LowerChar(str)
    ELSE LET half == Len(str) \div 2
         IN Lower(SubSeq(str, 1, half)) \o Lower(SubSeq(str, half + 1, Len(str)))

(***************************************************************************)
(* _deduplicate_opportunities.  A posted_date is an integer: EmptyStr is   *)
(* the string '', NoneVal is None, 1, 2, ... are date strings in their     *)
(* lexicographic order.                                                    *)
(***************************************************************************)
EmptyStr == 0
NoneVal == -1

DedupKey(opp) == <<Get(opp, "title", ""), Get(opp, "agency", "")>>

\* UniqueLoop with the last record of a key replacing the one kept so far
RECURSIVE UniqueLoop_lastWins(_, _, _)
UniqueLoop_lastWins(opps, seen, unique_opportunities) ==
    IF opps = <<>> THEN unique_opportunities
    ELSE LET opp == Head(opps)
             key == DedupKey(opp)
         IN IF key \notin seen
            THEN UniqueLoop_lastWins(Tail(opps), seen \cup {key}, Append(unique_opportunities, opp))
            ELSE UniqueLoop_lastWins(Tail(opps), seen,
                    [i \in 1..Len(unique_opportunities) |->
                        IF DedupKey(unique_opportunities[i]) = key THEN opp
                        ELSE unique_opportunities[i]])

\* the loop `for opp in opportunities` with its `seen` set
RECURSIVE UniqueLoop(_, _, _)
UniqueLoop(opps, seen, unique_opportunities) ==
    IF opps = <<>> THEN unique_opportunities
    ELSE LET opp == Head(opps)
             key == DedupKey(opp)
         IN IF key \notin seen
            THEN UniqueLoop(Tail(opps), seen \cup {key}, Append(unique_opportunities, opp))
            ELSE UniqueLoop(Tail(opps), seen, unique_opportunities)

\* key=lambda x: x.get('posted_date', '') or ''
SortKey(x) ==
    LET v == Get(x, "posted_date", EmptyStr)
    IN IF v = NoneVal \/ v = EmptyStr THEN EmptyStr ELSE v

\* InsertDesc without reverse=True: ascending
InsertDesc_ascending(sorted, x) ==
    LET n == Cardinality({i \in 1..Len(sorted) : SortKey(sorted[i]) <= SortKey(x)})
    IN SubSeq(sorted, 1, n) \o <<x>> \o SubSeq(sorted, n + 1, Len(sorted))

\* InsertDesc as sorted(...)[::-1] would place x: before the elements of equal key
InsertDesc_reversed(sorted, x) ==
    LET n == Cardinality({i \in 1..Len(sorted) : SortKey(sorted[i]) > SortKey(x)})
    IN SubSeq(sorted, 1, n) \o <<x>> \o SubSeq(sorted, n + 1, Len(sorted))

\* sorted(..., reverse=True): descending by key, and stable: x goes behind
\* every element already placed whose key is at least its own
InsertDesc(sorted, x) ==
    LET n == Cardinality({i \in 1..Len(sorted) : SortKey(sorted[i]) >= SortKey(x)})
    IN SubSeq(sorted, 1, n) \o <<x>> \o SubSeq(sorted, n + 1, Len(sorted))

RECURSIVE SortedDesc(_, _)
SortedDesc(xs, sorted) ==
    IF xs = <<>> THEN sorted ELSE SortedDesc(Tail(xs), InsertDesc(sorted, Head(xs)))

\* Dedup with the sort key written into each record before sorting
Dedup_filled(opps) ==
    LET u == UniqueLoop(opps, {}, <<>>)
        Fill(r) == [k \in DOMAIN r \cup {"posted_date"} |->
                       IF k = "posted_date" THEN SortKey(r) ELSE r[k]]
    IN SortedDesc([i \in 1..Len(u) |-> Fill(u[i])], <<>>)

Dedup(opps) == SortedDesc(UniqueLoop(opps, {}, <<>>), <<>>)

(***************************************************************************)
(* The items of the pages a source can answer with during a scan, with the *)
(* texts the extractors read from them, and the relevance vocabulary.      *)
(***************************************************************************)
NoElem == "NoElem"      \* find(...) returned None

RelHref == <<"", "/a">>
ScanLinks == {[name |-> "DOE", nav |-> FALSE, href |-> RelHref,
               description |-> "Office of Artificial Intelligence"],
              [name |-> "Menu", nav |-> TRUE, href |-> RelHref, description |-> ""],
              [name |-> "Mint", nav |-> FALSE, href |-> RelHref, description |-> "Coins and medals"]}
ScanCards == {[has_title |-> TRUE, title |-> "AI challenge", description |-> "", agency |-> NoElem,
               href |-> RelHref]}
ScanArticles == {[has_title |-> TRUE, title |-> "Hello world", author |-> NoElem, agency |-> NoElem,
                  href |-> RelHref],
                 [has_title |-> FALSE, title |-> "", author |-> NoElem, agency |-> NoElem,
                  href |-> NoHref],
                 [has_title |-> TRUE, title |-> "Robotics pilot", author |-> "Jane Doe", agency |-> "GSA",
                  href |-> NoHref]}

\* further items for the extractors alone: a relevant link without an href
\* attribute, a card without a heading
ExtractLinks == ScanLinks \cup
    {[name |-> "NSF", nav |-> FALSE, href |-> NoHref, description |-> "Research and technology"]}
ExtractCards == ScanCards \cup
    {[has_title |-> FALSE, title |-> "", description |-> "", agency |-> NoElem, href |-> NoHref]}

\* the texts of these items
ScanTexts ==
    {l.name : l \in ExtractLinks} \cup {l.description : l \in ExtractLinks}
    \cup {c.title : c \in ExtractCards} \cup {c.description : c \in ExtractCards}
    \cup {a.title : a \in ScanArticles}

\* self.ai_keywords of the DataCollector
RelevanceKeywords == {
    "artificial intelligence", "machine learning", "deep learning", "neural network", "AI", "ML",
    "data science", "computer vision", "natural language processing", "NLP", "automation",
    "robotics", "algorithm", "analytics", "big data", "cloud", "digital", "innovation", "research",
    "technology", "transformation", "modernization", "cyber", "security", "IT", "software",
    "computing", "emerging tech", "emerging technology"}

\* any(keyword.lower() in text.lower() for keyword in self.ai_keywords)
IsAiRelatedText(text) == \E k \in RelevanceKeywords : Contains(Lower(text), Lower(k))

\* IsAiRelatedText, evaluated once for each text of the items
AiRelatedOf == [t \in ScanTexts |-> IsAiRelatedText(t)]

\* datetime.now().isoformat()
Now == "now"

(***************************************************************************)
(* Extractors.  Each returns [raised, opps]: whether an exception left the *)
(* extractor, and the list it returned otherwise.                          *)
(***************************************************************************)
\* ParseAgencyLinks with the KeyError of a link ending the loop
RECURSIVE ParseAgencyLinks_abort(_, _)
ParseAgencyLinks_abort(links, agencies) ==
    IF links = <<>> THEN agencies
    ELSE LET link == Head(links)
             rest == Tail(links)
         IN IF link.nav THEN ParseAgencyLinks_abort(rest, agencies)
            ELSE IF Len(link.name) < 3 THEN ParseAgencyLinks_abort(rest, agencies)
            ELSE IF link.href = NoHref THEN agencies
            ELSE IF ~(AiRelatedOf[link.description] \/ AiRelatedOf[link.name])
                 THEN ParseAgencyLinks_abort(rest, agencies)
            ELSE ParseAgencyLinks_abort(rest, Append(agencies,
                    [id |-> IdStr(Len(agencies) + 1),
                     name |-> "Technology Leadership",
                     title |-> "AI Program Lead",
                     agency |-> link.name,
                     office |-> "Technology and Innovation",
                     dateAdded |-> Now,
                     source |-> "usa.gov",
                     url |-> Urljoin("https://www.usa.gov", link.href),
                     description |-> link.description]))

\* _parse_agency_index: the links of all candidate sections, in order
RECURSIVE ParseAgencyLinks(_, _)
ParseAgencyLinks(links, agencies) ==
    IF links = <<>> THEN agencies
    ELSE LET link == Head(links)
             rest == Tail(links)
         IN IF link.nav THEN ParseAgencyLinks(rest, agencies)
            ELSE IF Len(link.name) < 3 THEN ParseAgencyLinks(rest, agencies)
            ELSE IF link.href = NoHref THEN ParseAgencyLinks(rest, agencies)  \* KeyError, caught per link
            ELSE IF ~(AiRelatedOf[link.description] \/ AiRelatedOf[link.name])
                 THEN ParseAgencyLinks(rest, agencies)
            ELSE ParseAgencyLinks(rest, Append(agencies,
                    [id |-> IdStr(Len(agencies) + 1),
                     name |-> "Technology Leadership",
                     title |-> "AI Program Lead",
                     agency |-> link.name,
                     office |-> "Technology and Innovation",
                     dateAdded |-> Now,
                     source |-> "usa.gov",
                     url |-> Urljoin("https://www.usa.gov", link.href),
                     description |-> link.description]))

ParseAgencyIndex(links) == [raised |-> FALSE, opps |-> ParseAgencyLinks(links, <<>>)]

\* self._is_ai_related is looked up on the DataCollector: the only
\* _is_ai_related of the file is a function nested in _calculate_contact_scores
HasIsAiRelated == FALSE

\* _parse_challenge_gov_html: `for idx, card in enumerate(cards)`
RECURSIVE ParseChallengeCards(_, _, _)
ParseChallengeCards(cards, idx, opps) ==
    IF cards = <<>> THEN opps
    ELSE LET card == Head(cards)
             rest == Tail(cards)
         IN IF ~card.has_title THEN ParseChallengeCards(rest, idx + 1, opps)
            ELSE IF ~HasIsAiRelated THEN ParseChallengeCards(rest, idx + 1, opps)  \* AttributeError, caught per card
            ELSE IF ~(AiRelatedOf[card.title] \/ AiRelatedOf[card.description])
                 THEN ParseChallengeCards(rest, idx + 1, opps)
            ELSE ParseChallengeCards(rest, idx + 1, Append(opps,
                    [id |-> IdStr(idx),
                     name |-> "Challenge Manager",
                     title |-> "Challenge Lead",
                     agency |-> IF card.agency = NoElem THEN "Challenge.gov" ELSE card.agency,
                     office |-> "Challenge.gov",
                     dateAdded |-> Now,
                     source |-> "challenge.gov",
                     url |-> IF card.href = NoHref THEN EmptyUrl
                             ELSE Urljoin("https://www.challenge.gov", card.href),
                     description |-> card.title \o " - " \o card.description]))

ParseChallengeGovHtml(cards) == [raised |-> FALSE, opps |-> ParseChallengeCards(cards, 0, <<>>)]

\* data_collector.py uses json.loads and json.JSONDecodeError without importing json
JsonImported == FALSE

\* _parse_challenge_gov_content: json.loads, or the markup parse when decoding fails
ParseChallengeGovContent(content) ==
    IF ~JsonImported THEN [raised |-> TRUE, opps |-> <<>>]      \* NameError
    ELSE IF content.json THEN [raised |-> FALSE, opps |-> ParseChallengeCards(content.cards, 0, <<>>)]
    ELSE ParseChallengeGovHtml(content.cards)

\* _parse_digital_gov_content: `for idx, article in enumerate(articles)`
RECURSIVE ParseArticles(_, _, _)
ParseArticles(articles, idx, opps) ==
    IF articles = <<>> THEN opps
    ELSE LET article == Head(articles)
             rest == Tail(articles)
         IN IF ~article.has_title THEN ParseArticles(rest, idx + 1, opps)
            ELSE ParseArticles(rest, idx + 1, Append(opps,
                    [id |-> IdStr(idx),
                     name |-> IF article.author = NoElem THEN "Digital.gov Team" ELSE article.author,
                     title |-> "Digital.gov Author",
                     agency |-> IF article.agency = NoElem THEN "Digital.gov" ELSE article.agency,
                     office |-> "Digital.gov",
                     dateAdded |-> Now,
                     source |-> "digital.gov",
                     url |-> IF article.href = NoHref THEN EmptyUrl
                             ELSE Urljoin("https://digital.gov", article.href),
                     description |-> article.title]))

ParseDigitalGovContent(articles) == [raised |-> FALSE, opps |-> ParseArticles(articles, 0, <<>>)]

\* the if/elif chain on source_name in scan_opportunities
Extract(source_name, payload) ==
    IF source_name = "usa.gov" THEN ParseAgencyIndex(payload.items)
    ELSE IF source_name = "challenge.gov" THEN ParseChallengeGovContent([json |-> payload.json, cards |-> payload.items])
    ELSE IF source_name = "digital.gov" THEN ParseDigitalGovContent(payload.items)
    ELSE [raised |-> FALSE, opps |-> <<>>]

(***************************************************************************)
(* What a source can answer with HTTP 200 during a scan: the items of the  *)
(* page, in page order.                                                    *)
(***************************************************************************)
Payloads(source_name) ==
    IF source_name = "usa.gov"
    THEN {[json |-> FALSE, items |-> it] : it \in SeqsUpTo(ScanLinks, MaxItems)}
    ELSE IF source_name = "challenge.gov"
    THEN {[json |-> j, items |-> it] : j \in BOOLEAN, it \in SeqsUpTo(ScanCards, 1)}
    ELSE {[json |-> FALSE, items |-> it] : it \in SeqsUpTo(ScanArticles, MaxItems)}

Ok(payload) == IF payload.json THEN "200 json" ELSE "200 html"
Failures == {"http_error", "timeout"}

(***************************************************************************)
(* scan_opportunities.  A step is the code between two awaits: a request   *)
(* with the handling of its answer, a backoff sleep, the return.           *)
(***************************************************************************)
ScanInit ==
    /\ pc = "request"
    /\ src = 1
    /\ attempt = 0
    /\ opportunities = <<>>
    /\ source_opps = [s \in Sources |-> <<>>]
    /\ requests = [s \in Sources |-> <<>>]
    /\ elapsed = 0
    /\ result = <<>>

\* IsLastAttempt giving up one attempt early
IsLastAttempt_early(a) == a = LAST_ATTEMPT - 1

\* `if attempt == 2: raise`
IsLastAttempt(a) == a = LAST_ATTEMPT

\* OuterExceptContinues with the exception of the last attempt left to propagate
OuterExceptContinues_reraise == FALSE

\* the outer `except Exception: ... continue` around one source
OuterExceptContinues == TRUE

\* the for loop over self.sources advances, or ends and the session closes
NextSource ==
    IF src < Len(SourceOrder)
    THEN src' = src + 1 /\ attempt' = 0 /\ pc' = "request"
    ELSE pc' = "return" /\ UNCHANGED <<src, attempt>>

\* the inner `except Exception` of one attempt
AttemptFailed ==
    IF IsLastAttempt(attempt)
    THEN IF OuterExceptContinues
         THEN NextSource
         ELSE pc' = "raised" /\ UNCHANGED <<src, attempt>>
    ELSE pc' = "sleep" /\ UNCHANGED <<src, attempt>>

\* RequestOk putting the records of a source before those of earlier sources
RequestOk_prepend ==
    /\ pc = "request"
    /\ \E payload \in Payloads(SourceOrder[src]) :
        LET s == SourceOrder[src]
            r == Extract(s, payload)
        IN /\ requests' = [requests EXCEPT ![s] = Append(@, Ok(payload))]
           /\ elapsed' = elapsed + FastLatency
           /\ IF r.raised
              THEN AttemptFailed /\ UNCHANGED <<opportunities, source_opps>>
              ELSE /\ source_opps' = [source_opps EXCEPT ![s] = r.opps]
                   /\ opportunities' = r.opps \o opportunities
                   /\ NextSource
    /\ UNCHANGED <<result, ddVars, voVars, scVars, frVars, glVars, exVars, fdVars>>

\* session.get answers 200; the body is read and handed to the extractor
RequestOk ==
    /\ pc = "request"
    /\ \E payload \in Payloads(SourceOrder[src]) :
        LET s == SourceOrder[src]
            r == Extract(s, payload)
        IN /\ requests' = [requests EXCEPT ![s] = Append(@, Ok(payload))]
           /\ elapsed' = elapsed + FastLatency
           /\ IF r.raised
              THEN AttemptFailed /\ UNCHANGED <<opportunities, source_opps>>
              ELSE /\ source_opps' = [source_opps EXCEPT ![s] = r.opps]
                   /\ opportunities' = opportunities \o r.opps
                   /\ NextSource
    /\ UNCHANGED <<result, ddVars, voVars, scVars, frVars, glVars, exVars, fdVars>>

\* session.get answers with a status other than 200: ClientError is raised
RequestHttpError ==
    /\ pc = "request"
    /\ requests' = [requests EXCEPT ![SourceOrder[src]] = Append(@, "http_error")]
    /\ elapsed' = elapsed + FastLatency
    /\ AttemptFailed
    /\ UNCHANGED <<opportunities, source_opps, result, ddVars, voVars, scVars, frVars, glVars, exVars, fdVars>>

\* a transport error; the slowest is the request's own timeout, which the
\* session's ClientTimeout(total=30) raises after 30 units of that request
RequestTimeout ==
    /\ pc = "request"
    /\ requests' = [requests EXCEPT ![SourceOrder[src]] = Append(@, "timeout")]
    /\ elapsed' = elapsed + TIMEOUT_TOTAL
    /\ AttemptFailed
    /\ UNCHANGED <<opportunities, source_opps, result, ddVars, voVars, scVars, frVars, glVars, exVars, fdVars>>

\* await asyncio.sleep(1), then the next attempt
Backoff ==
    /\ pc = "sleep"
    /\ elapsed' = elapsed + BACKOFF
    /\ attempt' = attempt + 1
    /\ pc' = "request"
    /\ UNCHANGED <<src, opportunities, source_opps, requests, result, ddVars, voVars, scVars, frVars, glVars, exVars, fdVars>>

\* return self._deduplicate_opportunities(opportunities)
Return ==
    /\ pc = "return"
    /\ result' = Dedup(opportunities)
    /\ pc' = "done"
    /\ UNCHANGED <<src, attempt, opportunities, source_opps, requests, elapsed, ddVars, voVars, scVars, frVars, glVars, exVars, fdVars>>

(***************************************************************************)
(* _validate_office, the definition at the end of the class, which is the  *)
(* one Python binds.  A string is the sequence of its characters; the      *)
(* confidence is kept in hundredths.                                       *)
(***************************************************************************)
\* str.replace(old, new): every occurrence, left to right, without overlap
RECURSIVE ReplaceFrom(_, _, _, _)
ReplaceFrom(str, old, new, i) ==
    IF i > Len(str) THEN <<>>
    ELSE IF OccursAt(old, str, i) THEN new \o ReplaceFrom(str, old, new, i + Len(old))
    ELSE <<str[i]>> \o ReplaceFrom(str, old, new, i + 1)

Replace(str, old, new) == ReplaceFrom(str, old, new, 1)

\* abbrev_map, in insertion order
AbbrevMap == <<
    <<<<"S", "t">>, <<"S", "t", "r", "e", "e", "t">>>>,
    <<<<"A", "v", "e">>, <<"A", "v", "e", "n", "u", "e">>>>,
    <<<<"R", "d">>, <<"R", "o", "a", "d">>>>,
    <<<<"B", "l", "v", "d">>, <<"B", "o", "u", "l", "e", "v", "a", "r", "d">>>>,
    <<<<"L", "n">>, <<"L", "a", "n", "e">>>>,
    <<<<"D", "r">>, <<"D", "r", "i", "v", "e">>>>,
    <<<<"C", "t">>, <<"C", "o", "u", "r", "t">>>>,
    <<<<"P", "l">>, <<"P", "l", "a", "c", "e">>>>,
    <<<<"S", "q">>, <<"S", "q", "u", "a", "r", "e">>>>,
    <<<<"S", "t", "e">>, <<"S", "u", "i", "t", "e">>>>,
    <<<<"R", "m">>, <<"R", "o", "o", "m">>>>,
    <<<<"F", "l">>, <<"F", "l", "o", "o", "r">>>>,
    <<<<"B", "l", "d", "g">>, <<"B", "u", "i", "l", "d", "i", "n", "g">>>>,
    <<<<"D", "e", "p", "t">>, <<"D", "e", "p", "a", "r", "t", "m", "e", "n", "t">>>>>>

NoFixes == [k \in {} |-> <<>>]
Msg(text, arg) == [message |-> text, arg |-> arg]

\* the capitalization rule: a warning and suggested_fixes[office]
CapitalizationRule(o, acc) ==
    IF ~IsUpper(o[1])
    THEN [warnings |-> Append(acc.warnings, Msg("Location should be capitalized", <<>>)),
          fixes |-> [k \in {o} |-> <<Upper(o[1])>> \o Tail(o)]]
    ELSE acc

\* `for abbrev, full in abbrev_map.items()`
RECURSIVE AbbrevLoop(_, _, _)
AbbrevLoop(o, i, acc) ==
    IF i > Len(AbbrevMap) THEN acc
    ELSE LET abbrev == AbbrevMap[i][1]
             full == AbbrevMap[i][2]
         IN IF Contains(o, abbrev) /\ ~Contains(o, full)
            THEN AbbrevLoop(o, i + 1,
                    [warnings |-> Append(acc.warnings, Msg("Found abbreviation", abbrev)),
                     fixes |-> [k \in {o} |-> Replace(o, abbrev, full)]])
            ELSE AbbrevLoop(o, i + 1, acc)

\* the length rule
LengthRule(o) ==
    IF Len(o) < 5 THEN <<Msg("Office location seems too short", <<>>)>>
    ELSE IF Len(o) > 200 THEN <<Msg("Office location unusually long", <<>>)>>
    ELSE <<>>

\* Clamp without the lower limit
Clamp_noFloor(c) == IF c > 100 THEN 100 ELSE c

\* max(0.0, min(1.0, confidence))
Clamp(c) == IF c < 0 THEN 0 ELSE IF c > 100 THEN 100 ELSE c

\* Confidence with 0.05 for each warning
Confidence_halfPerWarning(errors, warnings) == Clamp(100 - 30 * Len(errors) - 5 * Len(warnings))

\* 1.0 - len(errors) * 0.3 - len(warnings) * 0.1, clamped
Confidence(errors, warnings) == Clamp(100 - 30 * Len(errors) - 10 * Len(warnings))

ValidateOffice(o) ==
    IF o = <<>>
    THEN [is_valid |-> FALSE,
          errors |-> <<Msg("Office location is missing", <<>>)>>,
          warnings |-> <<>>,
          confidence_score |-> 0,
          suggested_fixes |-> NoFixes]
    ELSE LET acc == AbbrevLoop(o, 1,
                        CapitalizationRule(o, [warnings |-> LengthRule(o), fixes |-> NoFixes]))
             errors == <<>>
         IN [is_valid |-> Len(errors) = 0,
             errors |-> errors,
             warnings |-> acc.warnings,
             confidence_score |-> Confidence(errors, acc.warnings),
             suggested_fixes |-> acc.fixes]

\* office strings: all short ones over a few characters, and some samples
OfficeChars == {"S", "t", "r", "e", "D"}
LongOffice == [i \in 1..201 |-> IF i = 1 THEN "A" ELSE "x"]
OfficeSamples == {
    <<"1", "2", "3", " ", "m", "a", "i", "n", " ", "s", "t">>,
    <<"x", " ", "S", "t", " ", "A", "v", "e", " ", "R", "d", " ", "B", "l", "v", "d", " ", "L", "n", " ", "D", "r", " ", "C", "t", " ", "P", "l", " ", "S", "q", " ", "S", "t", "e", " ", "R", "m", " ", "F", "l", " ", "B", "l", "d", "g", " ", "D", "e", "p", "t">>,
    <<"1", "2", " ", "M", "a", "i", "n", " ", "S", "t", "r", "e", "e", "t", ",", " ", "S", "t", "e", " ", "4">>,
    LongOffice}
OfficeInputs == SeqsUpTo(OfficeChars, MaxOfficeLen) \cup OfficeSamples

NoResult == [is_valid |-> FALSE, errors |-> <<>>, warnings |-> <<>>,
             confidence_score |-> 0, suggested_fixes |-> NoFixes]

VoIdle == vo_pc = "idle" /\ office = <<>> /\ vresult = NoResult

VoInit == vo_pc = "in" /\ office \in OfficeInputs /\ vresult = NoResult

ValidateCall ==
    /\ vo_pc = "in"
    /\ vresult' = ValidateOffice(office)
    /\ vo_pc' = "out"
    /\ UNCHANGED <<office, scanVars, ddVars, scVars, frVars, glVars, exVars, fdVars>>

(***************************************************************************)
(* LeadScorer.  Texts are strings.  A factor's raw value in [0, 1] is kept *)
(* as an integer number of 1/SCALE, SCALE being a common multiple of the   *)
(* denominators the factors divide by (6.3, 3.7, 4.0, 5, 3 * 180, 10).     *)
(***************************************************************************)
SCALE == 1398600

Min(a, b) == IF a < b THEN a ELSE b

\* sum of the weights of the entries of a keyword table found in a text
RECURSIVE Hits(_, _, _)
Hits(table, text, i) ==
    IF i > Len(table) THEN 0
    ELSE (IF Contains(text, table[i][1]) THEN table[i][2] ELSE 0) + Hits(table, text, i + 1)

RECURSIVE TotalWeight(_, _)
TotalWeight(table, i) == IF i > Len(table) THEN 0 ELSE table[i][2] + TotalWeight(table, i + 1)

\* self.scoring_factors, weights in hundredths, in insertion order
ScoringFactors == <<
    <<"ai_readiness", 30>>,
    <<"academic_partnerships", 15>>,
    <<"budget_potential", 20>>,
    <<"tech_initiatives", 15>>,
    <<"engagement_signals", 15>>,
    <<"accessibility", 5>> >>

\* self.ai_keywords, weights in tenths
AiKeywords == <<
    <<"artificial intelligence", 10>>,
    <<"machine learning", 10>>,
    <<"ai transformation", 10>>,
    <<"data science", 8>>,
    <<"digital transformation", 7>>,
    <<"automation", 6>>,
    <<"analytics", 5>>,
    <<"modernization", 4>>,
    <<"innovation", 3>> >>

\* self.budget_indicators, weights in tenths
BudgetIndicators == <<
    <<"enterprise", 10>>,
    <<"multi-year", 9>>,
    <<"million", 8>>,
    <<"phase", 6>>,
    <<"pilot", 4>> >>

\* self.academic_indicators, weights in tenths
AcademicIndicators == <<
    <<"university", 10>>,
    <<"research partnership", 10>>,
    <<"academic collaboration", 10>>,
    <<"research institute", 9>>,
    <<"college", 9>>,
    <<"academic", 8>>,
    <<"research center", 8>>,
    <<"laboratory", 7>>,
    <<"fellowship", 6>>,
    <<"internship", 5>>,
    <<"student program", 5>> >>

\* self.top_universities, each worth 0.5
TopUniversities == <<
    <<"mit", 5>>, <<"stanford", 5>>, <<"harvard", 5>>, <<"carnegie mellon", 5>>,
    <<"berkeley", 5>>, <<"georgia tech", 5>>, <<"caltech", 5>>, <<"princeton", 5>>,
    <<"illinois", 5>>, <<"michigan", 5>>, <<"purdue", 5>>, <<"texas", 5>>,
    <<"ucla", 5>>, <<"ucsd", 5>>, <<"columbia", 5>>, <<"cornell", 5>>,
    <<"washington", 5>>, <<"maryland", 5>>, <<"penn state", 5>>,
    <<"virginia tech", 5>>, <<"johns hopkins", 5>> >>

\* self.special_universities: one entry, weight 1.0
SpecialUniversity == "johns hopkins"
SpecialWeight == 10
RelationshipKeywords == {
    "existing partnership", "ongoing collaboration", "current contract",
    "active project", "jhu partnership", "apl", "applied physics laboratory"}

\* _score_ai_readiness
ScoreAiReadiness(description) ==
    IF description = "" THEN 0
    ELSE Min((Hits(AiKeywords, Lower(description), 1) * SCALE) \div TotalWeight(AiKeywords, 1), SCALE)

(* re.findall(r'\$\s*(\d+(?:\.\d+)?)[\s-]*(million|k|thousand)', budget_info) *)
Digits == <<"0", "1", "2", "3", "4", "5", "6", "7", "8", "9">>
IsDigit(c) == \E i \in 1..10 : Digits[i] = c
DigitValue(c) == (CHOOSE i \in 1..10 : Digits[i] = c) - 1
CharAt(str, i) == IF i <= Len(str) THEN SubSeq(str, i, i) ELSE ""

RECURSIVE SkipWhile(_, _, _)
SkipWhile(str, i, chars) ==
    IF i <= Len(str) /\ CharAt(str, i) \in chars THEN SkipWhile(str, i + 1, chars) ELSE i

RECURSIVE DigitsEnd(_, _)
DigitsEnd(str, i) == IF IsDigit(CharAt(str, i)) THEN DigitsEnd(str, i + 1) ELSE i

RECURSIVE Number(_, _, _)
Number(str, i, j) == IF i >= j THEN 0 ELSE Number(str, i, j - 1) * 10 + DigitValue(CharAt(str, j - 1))

\* the amount in thousandths: the integer part and up to three decimals
Thousandths(str, i, j, k) ==
    Number(str, i, j) * 1000 +
        (IF k > j
         THEN LET d == Min(k, j + 4)
              IN Number(str, j + 1, d) * (IF d - j = 2 THEN 100 ELSE IF d - j = 3 THEN 10 ELSE 1)
         ELSE 0)

Units == <<"million", "k", "thousand">>

\* a match starting at the '$' at position i: [found, amount, unit, end]
MatchAt(str, i) ==
    LET a == SkipWhile(str, i + 1, {" "})
        b == DigitsEnd(str, a)
        c == IF CharAt(str, b) = "." /\ IsDigit(CharAt(str, b + 1)) THEN DigitsEnd(str, b + 1) ELSE b
        d == SkipWhile(str, c, {" ", "-"})
        us == {u \in 1..3 : OccursAt(Units[u], str, d)}
    IN IF CharAt(str, i) = "$" /\ b > a /\ us # {}
       THEN LET u == CHOOSE u \in us : \A v \in us : u <= v
            IN [found |-> TRUE, amount |-> Thousandths(str, a, b, c), unit |-> Units[u],
                end |-> d + Len(Units[u])]
       ELSE [found |-> FALSE, amount |-> 0, unit |-> "", end |-> i + 1]

\* the loop over the matches: min(amount / 10, 1.0) per 'million',
\* min(amount / 10000, 1.0) per 'k' or 'thousand', summed in thousandths.
\* A match holds one '$', so the matches are those at the '$' of the text.
RECURSIVE AmountSum(_, _)
AmountSum(str, starts) ==
    IF starts = {} THEN 0
    ELSE LET i == CHOOSE i \in starts : \A j \in starts : i <= j
             m == MatchAt(str, i)
         IN (IF ~m.found THEN 0
             ELSE IF m.unit = "million" THEN Min(m.amount \div 10, 1000)
             ELSE Min(m.amount \div 10000, 1000)) + AmountSum(str, starts \ {i})

AmountScore(str) == AmountSum(str, {i \in 1..Len(str) : CharAt(str, i) = "$"})

\* _score_budget_potential
ScoreBudgetPotential(budget_info) ==
    IF budget_info = "" THEN 0
    ELSE LET text == Lower(budget_info)
             score == AmountScore(text) + 100 * Hits(BudgetIndicators, text, 1)
         IN Min((score * (SCALE \div 100)) \div TotalWeight(BudgetIndicators, 1), SCALE)

\* any(kw in init.lower() for kw in self.ai_keywords)
AiReady(init) == Hits(AiKeywords, Lower(init), 1) > 0

\* _score_tech_initiatives
ScoreTechInitiatives(initiatives) ==
    IF initiatives = <<>> THEN 0
    ELSE Min((Cardinality({i \in 1..Len(initiatives) : AiReady(initiatives[i])}) * SCALE) \div 5, SCALE)

\* an activity is the age in days of its date, (current_time - activity_date).days;
\* NoActivityDate: no date; BadActivityDate: a date that is not a datetime
NoActivityDate == "none"
BadActivityDate == "str"

\* the loop of _score_engagement_signals, in 1/180
RECURSIVE RecencySum(_, _)
RecencySum(activities, i) ==
    IF i > Len(activities) THEN 0
    ELSE (IF activities[i].date # NoActivityDate /\ activities[i].days_ago <= 180
          THEN 180 - activities[i].days_ago ELSE 0) + RecencySum(activities, i + 1)

\* `current_time - activity_date` raises TypeError
EngagementRaises(activities) ==
    \E i \in 1..Len(activities) : activities[i].date = BadActivityDate

\* _score_engagement_signals
ScoreEngagementSignals(activities) ==
    IF activities = <<>> THEN 0
    ELSE Min((RecencySum(activities, 1) * (SCALE \div 540)), SCALE)

\* _score_accessibility
ScoreAccessibility(contact_info) ==
    IF contact_info = {} THEN 0
    ELSE ((IF "email" \in contact_info THEN 4 ELSE 0)
          + (IF "phone" \in contact_info THEN 3 ELSE 0)
          + (IF "title" \in contact_info THEN 3 ELSE 0)) * (SCALE \div 10)

\* the research bonus: 'research' with 'ongoing' or 'active' in the lowered
\* description or in a partnership as given
ActiveResearch(text) ==
    Contains(text, "research") /\ (Contains(text, "ongoing") \/ Contains(text, "active"))

RECURSIVE JoinLower(_, _)
JoinLower(texts, i) ==
    IF i > Len(texts) THEN "" ELSE " " \o Lower(texts[i]) \o JoinLower(texts, i + 1)

\* ' '.join([description] + lowered partnerships + lowered initiatives)
AllText(description, partnerships, initiatives) ==
    Lower(description) \o JoinLower(partnerships, 1) \o JoinLower(initiatives, 1)

\* the special university and one of its relationship keywords occur
SpecialRelationship(all_text) ==
    Contains(all_text, SpecialUniversity) /\ \E k \in RelationshipKeywords : Contains(all_text, k)

MAX_ACADEMIC == 40      \* max_possible = 4.0, in tenths

\* _score_academic_partnerships: the raw value, and whether it set self.partnership_details
ScoreAcademicPartnerships(description, partnerships, initiatives) ==
    LET all_text == AllText(description, partnerships, initiatives)
        fired == SpecialRelationship(all_text)
        score == Hits(AcademicIndicators, all_text, 1)
                 + Hits(TopUniversities, all_text, 1)
                 + (IF fired THEN SpecialWeight ELSE 0)
                 + (IF ActiveResearch(Lower(description))
                       \/ \E i \in 1..Len(partnerships) : ActiveResearch(partnerships[i])
                    THEN 5 ELSE 0)
    IN [raw |-> Min((score * SCALE) \div MAX_ACADEMIC, SCALE), fired |-> fired]

NoDetails == [university |-> "", relationship_type |-> ""]

\* lead_data.get('description', '') and lead_data.get('budget_info', '')
TextOf(v) == IF v = Absent THEN "" ELSE v

\* lead_data dictionaries
Descriptions == {
    Absent,
    "Artificial Intelligence, machine learning, AI transformation, data science, digital transformation, automation, analytics, modernization and innovation",
    "We are launching an enterprise machine learning modernization program with a $2 million multi-year budget",
    "University research partnership and academic collaboration with the Johns Hopkins APL research institute, college laboratory, MIT and Stanford; ongoing"}
BudgetInfos == {
    Absent,
    "Pilot phase, $500k",
    "Enterprise multi-year program: $ 12.5 Million in phase one, $25 million after the pilot"}
InitiativeLists == {
    <<>>,
    <<"Cloud migration", "Analytics platform">>,
    <<"Automation", "Machine learning", "Data science", "Innovation lab", "Modernization", "Analytics">>}
Activities == {
    [date |-> "datetime", days_ago |-> 0],
    [date |-> "datetime", days_ago |-> -400],
    [date |-> "datetime", days_ago |-> 181],
    [date |-> NoActivityDate, days_ago |-> 0],
    [date |-> BadActivityDate, days_ago |-> 0]}
ContactInfos == {{}, {"email"}, {"email", "phone", "title"}}
PartnershipLists == {<<>>, <<"Active RESEARCH with Georgia Tech">>}

Leads ==
    [description : Descriptions, budget_info : BudgetInfos, tech_initiatives : InitiativeLists,
     recent_activities : SeqsUpTo(Activities, MaxActs), contact_info : ContactInfos,
     partnerships : PartnershipLists]

EmptyLead ==
    [description |-> Absent, budget_info |-> Absent, tech_initiatives |-> <<>>,
     recent_activities |-> <<>>, contact_info |-> {}, partnerships |-> <<>>]

\* the factors that read texts, evaluated once for each text of the leads
AiReadinessOf == [d \in Descriptions |-> ScoreAiReadiness(TextOf(d))]
BudgetPotentialOf == [b \in BudgetInfos |-> ScoreBudgetPotential(TextOf(b))]
TechInitiativesOf == [t \in InitiativeLists |-> ScoreTechInitiatives(t)]
AcademicPartnershipsOf ==
    [d \in Descriptions, p \in PartnershipLists, t \in InitiativeLists |->
        ScoreAcademicPartnerships(TextOf(d), p, t)]

\* _calculate_factor_score for the six factors, in the order of scoring_factors
RawScores(ld) ==
    <<AiReadinessOf[ld.description],
      AcademicPartnershipsOf[ld.description, ld.partnerships, ld.tech_initiatives].raw,
      BudgetPotentialOf[ld.budget_info],
      TechInitiativesOf[ld.tech_initiatives],
      ScoreEngagementSignals(ld.recent_activities),
      ScoreAccessibility(ld.contact_info)>>

\* scores[factor] = factor_score * weight, in 1/(100 * SCALE)
Weighted(raw) == [i \in 1..Len(ScoringFactors) |-> raw[i] * ScoringFactors[i][2]]

\* round(x, 2) of x = n / SCALE, in hundredths
Round2(n) == (2 * n + (SCALE \div 100)) \div (2 * (SCALE \div 100))

RECURSIVE SumTo(_, _)
SumTo(seq, i) == IF i = 0 THEN 0 ELSE seq[i] + SumTo(seq, i - 1)

Note(kind, subject) == [kind |-> kind, subject |-> subject]

\* the first loop of _generate_analysis: score >= 0.8, score <= 0.3
RECURSIVE FactorNotes(_, _)
FactorNotes(scores, i) ==
    IF i > Len(scores) THEN <<>>
    ELSE (IF scores[i] >= 80 * SCALE THEN <<Note("Strong", ScoringFactors[i][1])>>
          ELSE IF scores[i] <= 30 * SCALE THEN <<Note("Weak", ScoringFactors[i][1])>>
          ELSE <<>>) \o FactorNotes(scores, i + 1)

\* _generate_analysis without the note on partnership_details
GenerateAnalysis_noRelationshipNote(scores, details) ==
    LET academic == scores[2]
    IN FactorNotes(scores, 1)
       \o (IF academic >= 80 * SCALE THEN <<Note("Strong academic collaboration potential", "")>>
           ELSE IF academic >= 50 * SCALE THEN <<Note("Moderate academic engagement", "")>>
           ELSE IF academic > 0 THEN <<Note("Limited academic partnerships", "")>>
           ELSE <<>>)

\* _generate_analysis, given self.partnership_details as it is when called
GenerateAnalysis(scores, details) ==
    LET academic == scores[2]
    IN FactorNotes(scores, 1)
       \o (IF details # NoDetails /\ details.relationship_type = "existing"
           THEN <<Note("Existing strong relationship", details.university)>> ELSE <<>>)
       \o (IF academic >= 80 * SCALE THEN <<Note("Strong academic collaboration potential", "")>>
           ELSE IF academic >= 50 * SCALE THEN <<Note("Moderate academic engagement", "")>>
           ELSE IF academic > 0 THEN <<Note("Limited academic partnerships", "")>>
           ELSE <<>>)

\* the dict score_lead returns; scores in hundredths of a point
ScoreResult(ld, details) ==
    LET scores == Weighted(RawScores(ld))
    IN [total_score |-> Round2(SumTo(scores, Len(scores))),
        factor_scores |-> [i \in 1..Len(scores) |-> Round2(scores[i])],
        analysis |-> GenerateAnalysis(scores, details)]

NoScore == [total_score |-> 0, factor_scores |-> <<>>, analysis |-> <<>>]

ScIdle == sc_pc = "idle" /\ lead = <<>> /\ sresult = NoScore /\ partnership_details = NoDetails

ScInit == sc_pc = "ready" /\ lead \in Leads /\ sresult = NoScore /\ partnership_details = NoDetails

\* one call of score_lead: the factors in order, then the analysis
ScoreLeadCall ==
    /\ sc_pc = "ready"
    /\ LET fired == AcademicPartnershipsOf[lead.description, lead.partnerships,
                                            lead.tech_initiatives].fired
           details == IF fired
                      THEN [university |-> SpecialUniversity, relationship_type |-> "existing"]
                      ELSE partnership_details
       IN IF EngagementRaises(lead.recent_activities)
          THEN /\ sc_pc' = "raised"
               /\ partnership_details' = details
               /\ UNCHANGED sresult
          ELSE /\ sc_pc' = "returned"
               /\ sresult' = ScoreResult(lead, details)
               /\ partnership_details' = NoDetails
    /\ UNCHANGED <<lead, scanVars, ddVars, voVars, frVars, glVars, exVars, fdVars>>

\* the leads of the calls that follow the first on the same LeadScorer
FollowUpLeads ==
    [description : Descriptions, budget_info : {Absent}, tech_initiatives : {<<>>},
     recent_activities : SeqsUpTo(Activities, 1), contact_info : {{}},
     partnerships : {<<>>}]

\* the caller, with the result or the exception of the last call in hand,
\* calls score_lead again on the same object
ScoreAgain ==
    /\ sc_pc \in {"returned", "raised"}
    /\ lead' \in FollowUpLeads
    /\ sresult' = NoScore
    /\ sc_pc' = "ready"
    /\ UNCHANGED <<partnership_details, scanVars, ddVars, voVars, frVars, glVars, exVars, fdVars>>

(***************************************************************************)
(* _validate_field_relationships.  A field of the contact that is missing, *)
(* None or '' is "": the code only tests the fields for truth.  The        *)
(* validation entry of the contact is absent (or an empty dict), a dict    *)
(* with a 'warnings' list, or a non-empty dict without that key.           *)
(***************************************************************************)
\* re.sub(r'[^0-9]', '', phone)
RECURSIVE DigitsOf(_, _)
DigitsOf(phone, i) ==
    IF i > Len(phone) THEN ""
    ELSE (IF IsDigit(CharAt(phone, i)) THEN CharAt(phone, i) ELSE "") \o DigitsOf(phone, i + 1)

NoAreaCode == "<None>"

\* _extract_area_code
ExtractAreaCode(phone) ==
    LET clean_phone == DigitsOf(phone, 1)
    IN IF Len(clean_phone) >= 10 THEN SubSeq(clean_phone, 1, 3) ELSE NoAreaCode

\* area_code_map of _get_location_from_area_code
AreaCodeMap == {
    <<"202", "Washington DC">>, <<"703", "Northern Virginia">>, <<"301", "Maryland">>,
    <<"571", "Northern Virginia">>, <<"240", "Maryland">>, <<"757", "Virginia Beach">>,
    <<"410", "Baltimore">>, <<"212", "New York City">>, <<"312", "Chicago">>,
    <<"415", "San Francisco">>, <<"310", "Los Angeles">>}

NoLocation == ""

\* _get_location_from_area_code: area_code_map.get(area_code)
GetLocationFromAreaCode(area_code) ==
    IF \E e \in AreaCodeMap : e[1] = area_code
    THEN (CHOOSE e \in AreaCodeMap : e[1] = area_code)[2]
    ELSE NoLocation

\* `if not contact.get('name'): if contact.get('email') or contact.get('phone')`
NameCheck(c) == c.name = "" /\ (c.email # "" \/ c.phone # "")

\* `if dept and role and dept.lower() not in role.lower()`
DepartmentCheck(c) ==
    c.department # "" /\ c.role # "" /\ ~Contains(Lower(c.role), Lower(c.department))

\* the area code check
AreaCodeCheck(c) ==
    /\ c.phone # ""
    /\ c.office # ""
    /\ LET area_code == ExtractAreaCode(c.phone)
           office_location == GetLocationFromAreaCode(area_code)
       IN /\ area_code # NoAreaCode
          /\ office_location # NoLocation
          /\ ~Contains(Lower(c.office), Lower(office_location))

\* the warnings the three checks append, in the order of the code
RelationshipWarnings(c) ==
    (IF NameCheck(c) THEN <<Msg("Contact has email/phone but no name", <<>>)>> ELSE <<>>)
    \o (IF DepartmentCheck(c) THEN <<Msg("Department and role mismatch", <<>>)>> ELSE <<>>)
    \o (IF AreaCodeCheck(c) THEN <<Msg("Phone area code and office location mismatch", <<>>)>> ELSE <<>>)

\* contact['validation']['warnings'] raises KeyError
WarningsKeyMissing(c) == c.validation = "without_warnings"

\* contacts
Phones == {"", "(202) 555-0100", "+1 (202) 555-0100", "555-0100", "212.555.0100"}
ContactOffices == {"", "Washington DC office", "City Hall, New York City"}
EarlierWarnings == <<Msg("earlier", <<>>)>>
Contacts ==
    [name : {"", "Jane Roe"}, email : {"", "jane.roe@gsa.gov"}, phone : Phones,
     department : {"", "IT"}, role : {"", "Director of it operations", "Chief of Staff"},
     office : ContactOffices,
     validation : {"absent", "with_warnings", "without_warnings"}]

NoContact == [name |-> "", email |-> "", phone |-> "", department |-> "", role |-> "",
              office |-> "", validation |-> "absent"]

FrIdle == fr_pc = "idle" /\ contact = NoContact /\ fr_warnings = <<>>

FrInit == fr_pc = "in" /\ contact \in Contacts /\ fr_warnings = <<>>

\* one call of _validate_field_relationships
ValidateRelationshipsCall ==
    /\ fr_pc = "in"
    /\ LET before == IF contact.validation = "with_warnings" THEN EarlierWarnings ELSE <<>>
           added == RelationshipWarnings(contact)
       IN IF WarningsKeyMissing(contact) /\ added # <<>>
          THEN fr_pc' = "raised" /\ UNCHANGED fr_warnings
          ELSE fr_pc' = "returned" /\ fr_warnings' = before \o added
    /\ UNCHANGED <<contact, scanVars, ddVars, voVars, scVars, glVars, exVars, fdVars>>

(***************************************************************************)
(* get_leads: the clean-up of the agency name of one opportunity.          *)
(***************************************************************************)
MaxAgencyLen == 6   \* length of an enumerated agency string

Whitespace == {" ", "\t", "\n"}

\* str.strip() without the trimming
Strip_none(str) == str

\* str.strip()
Strip(str) ==
    IF \A i \in 1..Len(str) : str[i] \in Whitespace THEN <<>>
    ELSE LET first == CHOOSE i \in 1..Len(str) :
                         str[i] \notin Whitespace /\ \A j \in 1..(i - 1) : str[j] \in Whitespace
             last == CHOOSE i \in 1..Len(str) :
                         str[i] \notin Whitespace /\ \A j \in (i + 1)..Len(str) : str[j] \in Whitespace
         IN SubSeq(str, first, last)

\* str.split(sep, 1) for a one-character sep that occurs in str
Split1(str, sep) ==
    LET at == CHOOSE i \in 1..Len(str) : str[i] = sep /\ \A j \in 1..(i - 1) : str[j] # sep
    IN <<SubSeq(str, 1, at - 1), SubSeq(str, at + 1, Len(str))>>

HasChar(str, c) == \E i \in 1..Len(str) : str[i] = c

\* lines 26-32 of get_leads
CleanAgency(a) ==
    IF HasChar(a, "(") /\ HasChar(a, ")")
    THEN LET name_parts == Split1(a, "(")
             agency_name == Strip(name_parts[1])
             agency_acronym == Strip(IF HasChar(name_parts[2], ")")
                                     THEN Split1(name_parts[2], ")")[1]
                                     ELSE name_parts[2])
         IN agency_name \o <<" ", "(">> \o agency_acronym \o <<")">>
    ELSE a

AgencyChars == {"D", "o", " ", "(", ")"}
DepartmentOfEnergy ==
    <<"D", "e", "p", "a", "r", "t", "m", "e", "n", "t", " ", "o", "f", " ",
      "E", "n", "e", "r", "g", "y", " ", "(", "D", "O", "E", ")">>
AgencyInputs == SeqsUpTo(AgencyChars, MaxAgencyLen) \cup {DepartmentOfEnergy}

GlIdle == gl_pc = "idle" /\ agency = <<>> /\ lead_agency = <<>>

GlInit == gl_pc = "in" /\ agency \in AgencyInputs /\ lead_agency = <<>>

\* one opportunity is converted to a lead
ShapeLead ==
    /\ gl_pc = "in"
    /\ lead_agency' = CleanAgency(agency)
    /\ gl_pc' = "out"
    /\ UNCHANGED <<agency, scanVars, ddVars, voVars, scVars, frVars, exVars, fdVars>>

(***************************************************************************)
(* One call of one extractor on the items of a payload.                    *)
(***************************************************************************)
MaxPayload == 3     \* items of a payload given to an extractor

Extractors == {"_parse_agency_index", "_parse_challenge_gov_html", "_parse_digital_gov_content"}

ItemsOf(e) ==
    IF e = "_parse_agency_index" THEN ExtractLinks
    ELSE IF e = "_parse_challenge_gov_html" THEN ExtractCards
    ELSE ScanArticles

NoOutput == [raised |-> FALSE, opps |-> <<>>]

ExIdle == ex_pc = "idle" /\ extractor = "" /\ ex_items = <<>> /\ ex_out = NoOutput

ExInit ==
    /\ ex_pc = "in"
    /\ extractor \in Extractors
    /\ ex_items \in SeqsUpTo(ItemsOf(extractor), MaxPayload)
    /\ ex_out = NoOutput

ExtractCall ==
    /\ ex_pc = "in"
    /\ ex_out' = (IF extractor = "_parse_agency_index" THEN ParseAgencyIndex(ex_items)
                  ELSE IF extractor = "_parse_challenge_gov_html" THEN ParseChallengeGovHtml(ex_items)
                  ELSE ParseDigitalGovContent(ex_items))
    /\ ex_pc' = "out"
    /\ UNCHANGED <<extractor, ex_items, scanVars, ddVars, voVars, scVars, frVars, glVars, fdVars>>

(***************************************************************************)
(* _fetch_agency_details and the agency cache. Callers run on one event     *)
(* loop and are suspended only at `async with session.get(...)` and at      *)
(* `await response.text()`.                                                 *)
(***************************************************************************)
MaxCallers == 2     \* coroutines calling _fetch_agency_details on one DataCollector
MaxFetches == 2     \* session.get calls issued for one URL

Callers == 1..MaxCallers

Urls == {"https://www.nasa.gov", "https://www.energy.gov"}

\* what a page holds of the elements the function looks for: h1 is <<>> or
\* the one-element list of the text of the first h1; description is <<>>
\* (no meta element) or the one-element list of its content attribute, empty
\* where it has none; the contact section, where there is one, has no
\* e-mail, phone or address element
Pages == {[h1 |-> << <<" ", "N", "A", "S", "A", " ">> >>,
           description |-> << <<"S", "p", "a", "c", "e", "\n">> >>,
           contact |-> TRUE,
           text |-> "NASA Data and Technology"],
          [h1 |-> <<>>, description |-> << <<>> >>, contact |-> FALSE, text |-> "Welcome"],
          [h1 |-> << <<"D", "O", "E">> >>, description |-> <<>>, contact |-> FALSE,
           text |-> "DOE machine learning digital"]}

tech_keywords == <<"technology", "digital", "innovation", "modernization", "data",
                   "artificial intelligence", "machine learning">>

\* _extract_contact_info_from_section on a section without matching elements
EmptyContactInfo == {<<"name", "">>, <<"email", "">>, <<"phone", "">>, <<"address", "">>}

\* the details dict built from a page, lines 681-706
ParseDetails(page) ==
    LET content == Lower(page.text)
        IsIn(keyword) == Contains(content, keyword)
    IN [name |-> IF page.h1 = <<>> THEN <<>> ELSE Strip(page.h1[1]),
        description |-> IF page.description = <<>> THEN <<>>
                        ELSE Strip(page.description[1]),
        contact_info |-> IF page.contact THEN EmptyContactInfo ELSE {},
        tech_focus |-> SelectSeq(tech_keywords, IsIn)]

DetailsOf == [page \in Pages |-> ParseDetails(page)]

None == [none |-> TRUE]         \* the return value None
Pending == [pending |-> TRUE]   \* the call has not returned

EmptyCache == [u \in {} |-> None]

InFlight(c) == fd_pc[c] \in {"get", "text"}

FdIdle ==
    /\ agency_cache = EmptyCache
    /\ fd_pc = [c \in Callers |-> "off"]
    /\ fd_url = [c \in Callers |-> ""]
    /\ fd_status = [c \in Callers |-> ""]
    /\ fd_ret = [c \in Callers |-> Pending]
    /\ fd_requests = [u \in Urls |-> 0]
    /\ fd_with = [c \in Callers |-> {}]

\* self.agency_cache = {} in __init__; no call has been made
FdInit ==
    /\ agency_cache = EmptyCache
    /\ fd_pc = [c \in Callers |-> "idle"]
    /\ fd_url = [c \in Callers |-> ""]
    /\ fd_status = [c \in Callers |-> ""]
    /\ fd_ret = [c \in Callers |-> Pending]
    /\ fd_requests = [u \in Urls |-> 0]
    /\ fd_with = [c \in Callers |-> {}]

\* the call up to its first suspension: the cache is looked up, and on a
\* miss session.get issues the request
FdCall(c, u) ==
    /\ fd_pc[c] = "idle"
    /\ fd_url' = [fd_url EXCEPT ![c] = u]
    /\ fd_status' = [fd_status EXCEPT ![c] = ""]
    /\ IF u \in DOMAIN agency_cache
       THEN /\ fd_ret' = [fd_ret EXCEPT ![c] = agency_cache[u]]
            /\ fd_pc' = [fd_pc EXCEPT ![c] = "done"]
            /\ fd_with' = [fd_with EXCEPT ![c] = {}]
            /\ UNCHANGED fd_requests
       ELSE LET others == {d \in Callers \ {c} : InFlight(d) /\ fd_url[d] = u}
            IN /\ fd_requests[u] < MaxFetches
               /\ fd_requests' = [fd_requests EXCEPT ![u] = @ + 1]
               /\ fd_ret' = [fd_ret EXCEPT ![c] = Pending]
               /\ fd_pc' = [fd_pc EXCEPT ![c] = "get"]
               /\ fd_with' = [d \in Callers |->
                                 IF d = c THEN others
                                 ELSE IF d \in others THEN fd_with[d] \cup {c}
                                 ELSE fd_with[d]]
    /\ UNCHANGED <<agency_cache, scanVars, ddVars, voVars, scVars, frVars, glVars, exVars>>

\* the response arrives with status 200; the body is awaited
FdOk(c) ==
    /\ fd_pc[c] = "get"
    /\ fd_status' = [fd_status EXCEPT ![c] = "200"]
    /\ fd_pc' = [fd_pc EXCEPT ![c] = "text"]
    /\ UNCHANGED <<agency_cache, fd_url, fd_ret, fd_requests, fd_with,
                   scanVars, ddVars, voVars, scVars, frVars, glVars, exVars>>

\* a failed call that stores its outcome
FdNon200_cached(c) ==
    /\ fd_pc[c] = "get"
    /\ fd_status' = [fd_status EXCEPT ![c] = "500"]
    /\ fd_ret' = [fd_ret EXCEPT ![c] = None]
    /\ fd_pc' = [fd_pc EXCEPT ![c] = "done"]
    /\ agency_cache' = [u \in DOMAIN agency_cache \cup {fd_url[c]} |->
                           IF u = fd_url[c] THEN None ELSE agency_cache[u]]
    /\ UNCHANGED <<fd_url, fd_requests, fd_with,
                   scanVars, ddVars, voVars, scVars, frVars, glVars, exVars>>

\* the response arrives with another status: logged, None returned
FdNon200(c) ==
    /\ fd_pc[c] = "get"
    /\ fd_status' = [fd_status EXCEPT ![c] = "500"]
    /\ fd_ret' = [fd_ret EXCEPT ![c] = None]
    /\ fd_pc' = [fd_pc EXCEPT ![c] = "done"]
    /\ UNCHANGED <<agency_cache, fd_url, fd_requests, fd_with,
                   scanVars, ddVars, voVars, scVars, frVars, glVars, exVars>>

\* session.get, response.text() or the parsing raises: logged, None returned
FdRaises(c) ==
    /\ InFlight(c)
    /\ fd_status' = [fd_status EXCEPT ![c] = "raised"]
    /\ fd_ret' = [fd_ret EXCEPT ![c] = None]
    /\ fd_pc' = [fd_pc EXCEPT ![c] = "done"]
    /\ UNCHANGED <<agency_cache, fd_url, fd_requests, fd_with,
                   scanVars, ddVars, voVars, scVars, frVars, glVars, exVars>>

\* the body arrives: the details are built, stored and returned
FdBody(c, page) ==
    /\ fd_pc[c] = "text"
    /\ LET details == DetailsOf[page]
       IN /\ agency_cache' = [u \in DOMAIN agency_cache \cup {fd_url[c]} |->
                                 IF u = fd_url[c] THEN details ELSE agency_cache[u]]
          /\ fd_ret' = [fd_ret EXCEPT ![c] = details]
    /\ fd_pc' = [fd_pc EXCEPT ![c] = "done"]
    /\ UNCHANGED <<fd_url, fd_status, fd_requests, fd_with,
                   scanVars, ddVars, voVars, scVars, frVars, glVars, exVars>>

\* the caller has taken the value and is free to call again
FdReturn(c) ==
    /\ fd_pc[c] = "done"
    /\ fd_pc' = [fd_pc EXCEPT ![c] = "idle"]
    /\ fd_ret' = [fd_ret EXCEPT ![c] = Pending]
    /\ fd_status' = [fd_status EXCEPT ![c] = ""]
    /\ fd_with' = [d \in Callers |-> IF d = c THEN {} ELSE fd_with[d] \ {c}]
    /\ UNCHANGED <<agency_cache, fd_url, fd_requests,
                   scanVars, ddVars, voVars, scVars, frVars, glVars, exVars>>

ScanIdle ==
    /\ pc = "idle"
    /\ src = 1
    /\ attempt = 0
    /\ opportunities = <<>>
    /\ source_opps = [s \in Sources |-> <<>>]
    /\ requests = [s \in Sources |-> <<>>]
    /\ elapsed = 0
    /\ result = <<>>

DdIdle == dd_pc = "idle" /\ dd_in = <<>> /\ dd_out = <<>> /\ dd_again = <<>>

Init == ScanInit /\ DdIdle /\ VoIdle /\ ScIdle /\ FrIdle /\ GlIdle /\ ExIdle /\ FdIdle

Next == RequestOk \/ RequestHttpError \/ RequestTimeout \/ Backoff \/ Return

Spec == Init /\ [][Next]_vars

(***************************************************************************)
(* _deduplicate_opportunities on arbitrary lists of dicts: title, agency   *)
(* and posted_date may each be missing; the id tells the records apart.    *)
(***************************************************************************)
DdTitles == {Absent, "", "T"}
NoDate == NoneVal - 1       \* marks a dict without the posted_date key
DdDates == {NoDate, NoneVal, EmptyStr, 1, 2}

Opp(i, t, a) ==
    LET f1 == [k \in {"id"} |-> IdStr(i)]
        f2 == IF t = Absent THEN f1 ELSE f1 @@ [k \in {"title"} |-> t]
        f3 == IF a = Absent THEN f2 ELSE f2 @@ [k \in {"agency"} |-> a]
    IN f3

Dated(r, d) == [k \in DOMAIN r \cup {"posted_date"} |-> IF k = "posted_date" THEN d ELSE r[k]]

\* the dicts that can stand at position i of an input: every form of title
\* and of posted_date with an agency, and every form of title without one
OppsAt(i) ==
    {IF d = NoDate THEN Opp(i, t, "A") ELSE Dated(Opp(i, t, "A"), d) : t \in DdTitles, d \in DdDates}
        \cup {Opp(i, t, Absent) : t \in DdTitles}

RECURSIVE DdInputs(_)
DdInputs(n) ==
    IF n = 0 THEN {<<>>}
    ELSE LET shorter == DdInputs(n - 1)
         IN shorter \cup {Append(s, x) : s \in {t \in shorter : Len(t) = n - 1}, x \in OppsAt(n)}

DdInit ==
    /\ dd_pc = "in"
    /\ dd_in \in DdInputs(MaxLen)
    /\ dd_out = <<>>
    /\ dd_again = <<>>

DdCall ==
    /\ dd_pc = "in"
    /\ dd_out' = Dedup(dd_in)
    /\ dd_pc' = "once"
    /\ UNCHANGED <<dd_in, dd_again, scanVars, voVars, scVars, frVars, glVars, exVars, fdVars>>

DdCallAgain ==
    /\ dd_pc = "once"
    /\ dd_again' = Dedup(dd_out)
    /\ dd_pc' = "twice"
    /\ UNCHANGED <<dd_in, dd_out, scanVars, voVars, scVars, frVars, glVars, exVars, fdVars>>

InitDedup == ScanIdle /\ DdInit /\ VoIdle /\ ScIdle /\ FrIdle /\ GlIdle /\ ExIdle /\ FdIdle

NextDedup == DdCall \/ DdCallAgain

SpecDedup == InitDedup /\ [][NextDedup]_vars

InitOffice == ScanIdle /\ DdIdle /\ VoInit /\ ScIdle /\ FrIdle /\ GlIdle /\ ExIdle /\ FdIdle

NextOffice == ValidateCall

SpecOffice == InitOffice /\ [][NextOffice]_vars

InitScore == ScanIdle /\ DdIdle /\ VoIdle /\ ScInit /\ FrIdle /\ GlIdle /\ ExIdle /\ FdIdle

NextScore == ScoreLeadCall \/ ScoreAgain

SpecScore == InitScore /\ [][NextScore]_vars

InitRelationships == ScanIdle /\ DdIdle /\ VoIdle /\ ScIdle /\ FrInit /\ GlIdle /\ ExIdle /\ FdIdle

NextRelationships == ValidateRelationshipsCall

SpecRelationships == InitRelationships /\ [][NextRelationships]_vars

InitLeads == ScanIdle /\ DdIdle /\ VoIdle /\ ScIdle /\ FrIdle /\ GlInit /\ ExIdle /\ FdIdle

NextLeads == ShapeLead

SpecLeads == InitLeads /\ [][NextLeads]_vars

InitExtract == ScanIdle /\ DdIdle /\ VoIdle /\ ScIdle /\ FrIdle /\ GlIdle /\ ExInit /\ FdIdle

NextExtract == ExtractCall

SpecExtract == InitExtract /\ [][NextExtract]_vars

InitDetails == ScanIdle /\ DdIdle /\ VoIdle /\ ScIdle /\ FrIdle /\ GlIdle /\ ExIdle /\ FdInit

NextDetails ==
    \E c \in Callers :
        \/ \E u \in Urls : FdCall(c, u)
        \/ FdOk(c)
        \/ FdNon200(c)
        \/ FdRaises(c)
        \/ \E page \in Pages : FdBody(c, page)
        \/ FdReturn(c)

SpecDetails == InitDetails /\ [][NextDetails]_vars

(***************************************************************************)
(* Properties of the scan.                                                 *)
(***************************************************************************)
Range(seq) == {seq[i] : i \in 1..Len(seq)}

\* every request issued to the source failed: a non-200 status or a transport error
AllFailed(s) == requests[s] # <<>> /\ \A i \in 1..Len(requests[s]) : requests[s][i] \in Failures

\* what the extractors returned during the scan, in source order
Extracted == source_opps[SourceOrder[1]] \o source_opps[SourceOrder[2]] \o source_opps[SourceOrder[3]]

TitleAgency(r) ==
    <<IF "title" \in DOMAIN r THEN r.title ELSE "", IF "agency" \in DOMAIN r THEN r.agency ELSE "">>

\* C1 as stated: a source whose every fetch attempt fails is requested exactly
\* 3 times, contributes no record, and every record extracted from the other
\* sources is in the scan result.
C1_EveryOtherRecordReturned ==
    pc = "done" =>
        \A s \in Sources : AllFailed(s) =>
            /\ Len(requests[s]) = 3
            /\ \A r \in Range(result) : r.source # s
            /\ \A t \in Sources \ {s} : \A r \in Range(source_opps[t]) : r \in Range(result)

\* C1 (amended): a source whose every fetch attempt fails is requested exactly
\* 3 times and contributes no record, and every record extracted from the
\* other sources is in the scan result unless an earlier extracted record has
\* the same (title, agency), in which case that earlier record is.
C1_RetryExhaustion ==
    pc = "done" =>
        \A s \in Sources : AllFailed(s) =>
            /\ Len(requests[s]) = 3
            /\ source_opps[s] = <<>>
            /\ \A r \in Range(result) : r.source # s
            /\ \A i \in 1..Len(Extracted) :
                Extracted[i].source # s =>
                    LET first == CHOOSE j \in 1..i :
                            /\ TitleAgency(Extracted[j]) = TitleAgency(Extracted[i])
                            /\ \A k \in 1..(j - 1) : TitleAgency(Extracted[k]) # TitleAgency(Extracted[i])
                    IN Extracted[first] \in Range(result)

\* a source failed all its attempts, another one delivered two records of one key
C1_Witness ==
    /\ pc = "done"
    /\ AllFailed("digital.gov")
    /\ Len(source_opps["usa.gov"]) = 2
    /\ Len(result) = 1

\* C2: no per-source failure makes scan_opportunities raise: it never ends in
\* an exception, and when every source fails on every attempt the list it
\* returns is empty.
C2_NeverRaises ==
    /\ pc # "raised"
    /\ (pc = "done" /\ \A s \in Sources : AllFailed(s)) => result = <<>>

C2_Witness ==
    /\ pc = "done"
    /\ \A s \in Sources : AllFailed(s) /\ Len(requests[s]) = 3
    /\ result = <<>>

\* C3 as stated: from the first request of a scan to the end of its last
\* request or backoff wait, at most 30 time units pass.
C3_SingleScanDeadline == elapsed <= TIMEOUT_TOTAL

\* C4 as stated: every returned record carries its validation messages and its score.
C4_ValidatedAndScored ==
    pc = "done" =>
        \A r \in Range(result) : {"validationMessages", "score"} \subseteq DOMAIN r

\* C8 as stated, its first half: a challenge listing that is answered with 200
\* and is not valid JSON is parsed as markup, so the source is neither failed
\* nor requested again: that request is the last one to challenge.gov.
C8_MarkupFallback ==
    \A i \in 1..Len(requests["challenge.gov"]) :
        requests["challenge.gov"][i] = "200 html" =>
            /\ i = Len(requests["challenge.gov"])
            /\ ~(pc = "sleep" /\ SourceOrder[src] = "challenge.gov")

(***************************************************************************)
(* Properties of the deduplicator.                                         *)
(***************************************************************************)
HasDate(r) == "posted_date" \in DOMAIN r /\ r.posted_date \notin {NoneVal, EmptyStr}

\* C5: the output holds exactly one record per (title, agency) of the input,
\* and it is the first input record with that pair.
C5_OnePerKeyFirstSeen ==
    dd_pc # "in" =>
        /\ \A i \in 1..Len(dd_in) :
            Cardinality({j \in 1..Len(dd_out) : TitleAgency(dd_out[j]) = TitleAgency(dd_in[i])}) = 1
        /\ \A j \in 1..Len(dd_out) :
            \E i \in 1..Len(dd_in) :
                /\ dd_out[j] = dd_in[i]
                /\ \A k \in 1..(i - 1) : TitleAgency(dd_in[k]) # TitleAgency(dd_in[i])

\* a later duplicate was dropped and two keys survive
C5_Witness ==
    /\ dd_pc = "once"
    /\ Len(dd_in) = MaxLen
    /\ Len(dd_out) = 2
    /\ TitleAgency(dd_in[1]) = TitleAgency(dd_in[MaxLen])

\* C6: the output is in descending posted_date order, and the records with a
\* missing or empty posted_date come after all records that have one.
C6_DescendingDates ==
    dd_pc # "in" =>
        \A i, j \in 1..Len(dd_out) :
            (i < j /\ HasDate(dd_out[j])) =>
                HasDate(dd_out[i]) /\ dd_out[i].posted_date >= dd_out[j].posted_date

\* the sort moved a dated record in front of an undated one and an older one
C6_Witness ==
    /\ dd_pc = "once"
    /\ Len(dd_in) = 3
    /\ ~HasDate(dd_in[1]) /\ HasDate(dd_in[2]) /\ HasDate(dd_in[3])
    /\ dd_in[2].posted_date < dd_in[3].posted_date
    /\ dd_out = <<dd_in[3], dd_in[2], dd_in[1]>>

\* C7: deduplicating the output of the deduplicator changes nothing.
C7_Idempotent == dd_pc = "twice" => dd_again = dd_out

\* the first pass dropped a record and reordered the rest, with a tie of dates
C7_Witness ==
    /\ dd_pc = "twice"
    /\ Len(dd_in) = 3
    /\ Len(dd_out) = 2
    /\ dd_out # SubSeq(dd_in, 1, 2)
    /\ SortKey(dd_out[1]) = SortKey(dd_out[2])
    /\ dd_again = dd_out

(***************************************************************************)
(* Properties of the office validator.                                     *)
(***************************************************************************)
\* C10: the confidence_score of _validate_office lies in [0.0, 1.0]; for the
\* empty string the result has exactly one error, no warning, no suggested
\* fix, confidence 0.0 and is_valid False.
C10_ConfidenceBounded ==
    vo_pc = "out" =>
        /\ vresult.confidence_score >= 0
        /\ vresult.confidence_score <= 100
        /\ office = <<>> =>
            /\ Len(vresult.errors) = 1
            /\ vresult.warnings = <<>>
            /\ DOMAIN vresult.suggested_fixes = {}
            /\ vresult.confidence_score = 0
            /\ ~vresult.is_valid

\* the empty string was validated
C10_Witness ==
    /\ vo_pc = "out"
    /\ office = <<>>
    /\ Len(vresult.errors) = 1
    /\ ~vresult.is_valid

\* C11: for a non-empty office the confidence_score is
\* max(0, min(1, 1.0 - 0.3*E - 0.1*W)), E and W being the numbers of errors
\* and warnings of the same result, and is_valid holds exactly when there is
\* no error.
C11_ConfidenceFormula ==
    (vo_pc = "out" /\ office # <<>>) =>
        LET E == Len(vresult.errors)
            W == Len(vresult.warnings)
            c == 100 - 30 * E - 10 * W
            lo == IF c < 100 THEN c ELSE 100
        IN /\ vresult.confidence_score = (IF lo > 0 THEN lo ELSE 0)
           /\ vresult.is_valid <=> (vresult.errors = <<>>)

\* an office with three warnings was validated at 0.7
C11_Witness ==
    /\ vo_pc = "out"
    /\ office # <<>>
    /\ Len(vresult.warnings) = 3
    /\ vresult.confidence_score = 70
    /\ vresult.is_valid

\* the office of the example
Office123MainSt == <<"1", "2", "3", " ", "m", "a", "i", "n", " ", "s", "t">>

\* the result has a warning with this text about this argument
Warned(text, arg) ==
    \E i \in 1..Len(vresult.warnings) : vresult.warnings[i] = Msg(text, arg)

\* C12: "123 main st" gets a warning for the lowercase start and one for the
\* St abbreviation, suggested_fixes maps it to a value that is capitalized
\* and has the abbreviation expanded, is_valid is True and the confidence
\* is strictly between 0.0 and 1.0.
C12_Example123MainSt ==
    (vo_pc = "out" /\ office = Office123MainSt) =>
        /\ Warned("Location should be capitalized", <<>>)
        /\ Warned("Found abbreviation", <<"S", "t">>)
        /\ DOMAIN vresult.suggested_fixes = {Office123MainSt}
        /\ IsUpper(vresult.suggested_fixes[Office123MainSt][1])
        /\ Contains(vresult.suggested_fixes[Office123MainSt], <<"S", "t", "r", "e", "e", "t">>)
        /\ vresult.is_valid
        /\ vresult.confidence_score > 0
        /\ vresult.confidence_score < 100

\* what the validator returns for "123 main st": the capitalization warning
\* alone, the string itself as its fix, confidence 0.9
Example123MainStAsCoded ==
    (vo_pc = "out" /\ office = Office123MainSt) =>
        /\ vresult.warnings = <<Msg("Location should be capitalized", <<>>)>>
        /\ vresult.suggested_fixes = [k \in {Office123MainSt} |-> Office123MainSt]
        /\ vresult.is_valid
        /\ vresult.confidence_score = 90

(***************************************************************************)
(* Properties of the lead scorer.                                          *)
(***************************************************************************)
\* C9: for every lead_data dictionary score_lead returns, with a total_score
\* in [0, 100] and factor_scores that are each in [0, 100]; for the empty
\* dictionary the total_score is 0.0.
C9_ScoreBounded ==
    sc_pc # "ready" =>
        /\ sc_pc = "returned"
        /\ sresult.total_score >= 0
        /\ sresult.total_score <= 10000
        /\ \A i \in 1..Len(sresult.factor_scores) :
            sresult.factor_scores[i] >= 0 /\ sresult.factor_scores[i] <= 10000
        /\ lead = EmptyLead => sresult.total_score = 0

\* what score_lead does keep: a call that returns has its scores in range,
\* a call raises only on an activity date that cannot be subtracted
ScoreBoundedOnReturn ==
    /\ sc_pc = "returned" =>
        /\ sresult.total_score >= 0
        /\ sresult.total_score <= 10000
        /\ \A i \in 1..Len(sresult.factor_scores) :
            sresult.factor_scores[i] >= 0 /\ sresult.factor_scores[i] <= 10000
        /\ lead = EmptyLead => sresult.total_score = 0
    /\ sc_pc = "raised" => EngagementRaises(lead.recent_activities)

\* the description of the example
ExampleDescription ==
    "We are launching an enterprise machine learning modernization program with a $2 million multi-year budget"

\* C13: a lead with the example description gets ai_readiness and
\* budget_potential raw values above half of their range and a total_score
\* greater than 50.
C13_ExampleUpperHalf ==
    (sc_pc = "returned" /\ lead.description = ExampleDescription) =>
        /\ 2 * RawScores(lead)[1] > SCALE
        /\ 2 * RawScores(lead)[3] > SCALE
        /\ sresult.total_score > 5000

\* what score_lead returns for {'description': <the example>}: ai_readiness
\* 1.4 / 6.3 of its range, budget_potential 0.0, total_score 6.67
ExampleAsCoded ==
    (sc_pc = "returned" /\ lead = [EmptyLead EXCEPT !.description = ExampleDescription]) =>
        /\ RawScores(lead)[1] = (14 * SCALE) \div 63
        /\ RawScores(lead)[3] = 0
        /\ sresult.factor_scores = <<667, 0, 0, 0, 0, 0>>
        /\ sresult.total_score = 667

\* the analysis has this note
HasNote(kind, subject) ==
    \E i \in 1..Len(sresult.analysis) : sresult.analysis[i] = Note(kind, subject)

\* C14: a factor gets a "Strong <factor>" note exactly when its raw value is
\* at least 0.8, a "Weak <factor>" note exactly when its raw value is at
\* most 0.3, and neither note in between.
C14_NotesOnRawValues ==
    sc_pc = "returned" =>
        \A i \in 1..Len(ScoringFactors) :
            /\ HasNote("Strong", ScoringFactors[i][1]) <=> (10 * RawScores(lead)[i] >= 8 * SCALE)
            /\ HasNote("Weak", ScoringFactors[i][1]) <=> (10 * RawScores(lead)[i] <= 3 * SCALE)

\* what _generate_analysis does with the weighted scores it is given: no
\* weight exceeds 0.30, so every factor is noted Weak and none Strong
NotesAsCoded ==
    sc_pc = "returned" =>
        \A i \in 1..Len(ScoringFactors) :
            /\ ~HasNote("Strong", ScoringFactors[i][1])
            /\ HasNote("Weak", ScoringFactors[i][1])

\* the special-relationship bonus fires for the lead
BonusFires ==
    AcademicPartnershipsOf[lead.description, lead.partnerships, lead.tech_initiatives].fired

\* C15: whenever the special-relationship bonus fires while a lead is
\* scored, the analysis returned by the same call has a note naming the
\* institution.
C15_RelationshipNoted ==
    (sc_pc = "returned" /\ BonusFires) =>
        HasNote("Existing strong relationship", SpecialUniversity)

\* a lead naming Johns Hopkins with a relationship phrase was scored
C15_Witness ==
    /\ sc_pc = "returned"
    /\ BonusFires
    /\ Contains(Lower(lead.description), SpecialUniversity)
    /\ HasNote("Existing strong relationship", SpecialUniversity)

(***************************************************************************)
(* Properties of the records of a scan.                                    *)
(***************************************************************************)
\* C16: the records returned by one scan have pairwise distinct ids, across
\* sources as well as within a source.
C16_DistinctIds ==
    pc = "done" =>
        \A i, j \in 1..Len(result) : i # j => result[i].id # result[j].id

\* what the positional ids do give: distinct ids among the records that one
\* extractor returned in one call
IdsDistinctWithinSource ==
    \A s \in Sources :
        \A i, j \in 1..Len(source_opps[s]) : i # j => source_opps[s][i].id # source_opps[s][j].id

\* the title and description an extractor read for the item of a record: an
\* agency link's text and description, a card's "title - description", an
\* article's title (the articles of the model have no summary)
ItemTexts(r) == IF r.source = "usa.gov" THEN {r.agency, r.description} ELSE {r.description}

\* C17: every record emitted by an extractor comes from an item whose title
\* or description contains a term of the relevance vocabulary as a
\* case-insensitive substring; an item without such a term is never emitted.
C17_OnlyRelevantEmitted ==
    \A i \in 1..Len(Extracted) : \E t \in ItemTexts(Extracted[i]) : AiRelatedOf[t]

\* what the extractors do keep: the agency index emits only links whose
\* description or text has a term, and the challenge listing emits nothing
RelevanceAsCoded ==
    /\ \A i \in 1..Len(source_opps["usa.gov"]) :
        \E t \in ItemTexts(source_opps["usa.gov"][i]) : AiRelatedOf[t]
    /\ source_opps["challenge.gov"] = <<>>

(***************************************************************************)
(* Properties of the cross-field checks.                                   *)
(***************************************************************************)
\* the warnings the call appended
Appended ==
    SubSeq(fr_warnings, (IF contact.validation = "with_warnings" THEN Len(EarlierWarnings) ELSE 0) + 1,
           Len(fr_warnings))

AppendedMsg(text) == \E i \in 1..Len(Appended) : Appended[i] = Msg(text, <<>>)

\* the contact has a name but neither email nor phone
NameWithoutEmailOrPhone == contact.name # "" /\ contact.email = "" /\ contact.phone = ""

\* C18: _validate_field_relationships appends one warning for each
\* cross-field condition that holds (a name but neither email nor phone; the
\* department not contained in the role text; the phone's area code mapping
\* to a region not contained in the office text), none for a condition that
\* does not hold, and never raises.
C18_OneWarningPerCondition ==
    fr_pc # "in" =>
        /\ fr_pc = "returned"
        /\ AppendedMsg("Contact has email/phone but no name") <=> NameWithoutEmailOrPhone
        /\ AppendedMsg("Department and role mismatch") <=> DepartmentCheck(contact)
        /\ AppendedMsg("Phone area code and office location mismatch") <=> AreaCodeCheck(contact)
        /\ Len(Appended) = (IF NameWithoutEmailOrPhone THEN 1 ELSE 0)
                            + (IF DepartmentCheck(contact) THEN 1 ELSE 0)
                            + (IF AreaCodeCheck(contact) THEN 1 ELSE 0)

\* what the code does: the first check is on a missing name with an email
\* or phone; a call returns unless it has a warning to append to a
\* validation entry without a 'warnings' list
RelationshipsAsCoded ==
    /\ fr_pc = "returned" =>
        /\ AppendedMsg("Contact has email/phone but no name")
            <=> (contact.name = "" /\ (contact.email # "" \/ contact.phone # ""))
        /\ NameWithoutEmailOrPhone => ~AppendedMsg("Contact has email/phone but no name")
        /\ AppendedMsg("Department and role mismatch") <=> DepartmentCheck(contact)
        /\ AppendedMsg("Phone area code and office location mismatch") <=> AreaCodeCheck(contact)
    /\ fr_pc = "raised" => contact.validation = "without_warnings"

(***************************************************************************)
(* Order of the scan.                                                      *)
(***************************************************************************)
IsOk(outcome) == outcome \in {"200 json", "200 html"}

\* one step of the scan keeps the order of the sources: only the current
\* source is requested, the scan never goes back to an earlier source, it
\* leaves a source only with that source's extraction returned or its third
\* attempt failed, and records are only ever added at the end of the list
OrderedStep ==
    LET s == SourceOrder[src]
    IN /\ \A t \in Sources : requests'[t] # requests[t] => t = s
       /\ src' >= src
       /\ (src' # src \/ (pc = "request" /\ pc' = "return")) =>
            \/ /\ IsOk(requests'[s][Len(requests'[s])])
               /\ opportunities' = opportunities \o source_opps'[s]
            \/ /\ Len(requests'[s]) = LAST_ATTEMPT + 1
               /\ opportunities' = opportunities
       /\ \E added \in {<<>>, source_opps'[s]} : opportunities' = opportunities \o added

\* C19: sources are requested and processed strictly in their declaration
\* order, no request to a later source starting before the earlier one has
\* succeeded or been abandoned; before deduplication the records of a source
\* are in the order its extractor emitted them, after all records of
\* earlier sources.
C19_DeclarationOrder ==
    /\ [](opportunities = Extracted)
    /\ [](\A k \in 1..Len(SourceOrder) :
            requests[SourceOrder[k]] # <<>> =>
                /\ k <= src
                /\ \A j \in 1..(k - 1) :
                    \/ Len(requests[SourceOrder[j]]) = LAST_ATTEMPT + 1
                    \/ /\ requests[SourceOrder[j]] # <<>>
                       /\ IsOk(requests[SourceOrder[j]][Len(requests[SourceOrder[j]])]))
    /\ [][OrderedStep]_vars

\* a scan ended with two records of the first source followed by two of the last
C19_Witness ==
    /\ pc = "done"
    /\ Len(source_opps["usa.gov"]) = 2
    /\ Len(source_opps["digital.gov"]) = 2
    /\ Len(requests["usa.gov"]) = 2
    /\ opportunities = source_opps["usa.gov"] \o source_opps["digital.gov"]

(***************************************************************************)
(* Fields of the records.                                                  *)
(***************************************************************************)
\* the base URL and the name and title placeholders of a source
BaseOf(source) ==
    IF source = "usa.gov" THEN "https://www.usa.gov"
    ELSE IF source = "challenge.gov" THEN "https://www.challenge.gov"
    ELSE "https://digital.gov"

PlaceholderOf(source) ==
    IF source = "usa.gov" THEN <<"Technology Leadership", "AI Program Lead">>
    ELSE IF source = "challenge.gov" THEN <<"Challenge Manager", "Challenge Lead">>
    ELSE <<"Digital.gov Team", "Digital.gov Author">>

RecordFields == {"id", "name", "title", "agency", "url", "dateAdded"}

\* C20: every record an extractor produces carries a non-empty absolute
\* contact URL, resolved against the base URL of its own source, an id, the
\* source's fixed name and title placeholders, the agency and a dateAdded.
C20_CompleteRecords ==
    \A i \in 1..Len(Extracted) :
        LET r == Extracted[i]
        IN /\ RecordFields \subseteq DOMAIN r
           /\ r.url # EmptyUrl
           /\ r.url[1] = BaseOf(r.source)
           /\ <<r.name, r.title>> = PlaceholderOf(r.source)
           /\ r.dateAdded = Now

\* what the extractors do keep: every record has the six fields and its
\* source's title placeholder; an agency-index record has an absolute URL
\* and the name placeholder; an article's URL is '' or absolute
RecordsAsCoded ==
    \A i \in 1..Len(Extracted) :
        LET r == Extracted[i]
        IN /\ RecordFields \subseteq DOMAIN r
           /\ r.title = PlaceholderOf(r.source)[2]
           /\ r.dateAdded = Now
           /\ r.url = EmptyUrl \/ r.url[1] = BaseOf(r.source)
           /\ r.source = "usa.gov" =>
                r.url # EmptyUrl /\ r.name = PlaceholderOf(r.source)[1]

(***************************************************************************)
(* Properties of the lead-shaping transform.                               *)
(***************************************************************************)
\* a name or an acronym: no parenthesis, no whitespace at either end
Plain(str) ==
    /\ ~HasChar(str, "(") /\ ~HasChar(str, ")")
    /\ str # <<>> => str[1] \notin Whitespace /\ str[Len(str)] \notin Whitespace

\* "Full Name (ACRONYM)"
Canonical(a) ==
    \E k \in 1..(Len(a) - 3) :
        /\ Plain(SubSeq(a, 1, k)) /\ SubSeq(a, 1, k) # <<>>
        /\ SubSeq(a, k + 1, k + 2) = <<" ", "(">>
        /\ Plain(SubSeq(a, k + 3, Len(a) - 1)) /\ SubSeq(a, k + 3, Len(a) - 1) # <<>>
        /\ a[Len(a)] = ")"

\* C21: get_leads leaves unchanged every agency string that is already in
\* the canonical form "Full Name (ACRONYM)", such as
\* "Department of Energy (DOE)".
C21_CanonicalUnchanged ==
    (gl_pc = "out" /\ Canonical(agency)) => lead_agency = agency

\* "Department of Energy (DOE)" was converted
C21_Witness ==
    /\ gl_pc = "out"
    /\ agency = DepartmentOfEnergy
    /\ Canonical(agency)
    /\ lead_agency = DepartmentOfEnergy

(***************************************************************************)
(* Properties of one extractor call.                                       *)
(***************************************************************************)
\* parsing the item fails: a link without href (KeyError), a card with a
\* heading (AttributeError at self._is_ai_related)
ItemFails(e, item) ==
    IF e = "_parse_agency_index" THEN ~item.nav /\ Len(item.name) >= 3 /\ item.href = NoHref
    ELSE IF e = "_parse_challenge_gov_html" THEN item.has_title
    ELSE FALSE

\* the item is parsed without failure and is one the extractor emits
ItemEmitted(e, item) ==
    IF e = "_parse_agency_index"
    THEN /\ ~item.nav /\ Len(item.name) >= 3 /\ item.href # NoHref
         /\ (AiRelatedOf[item.description] \/ AiRelatedOf[item.name])
    ELSE IF e = "_parse_challenge_gov_html" THEN FALSE
    ELSE item.has_title

\* the positions of the emitted items, in payload order
RECURSIVE EmittedPositions(_)
EmittedPositions(i) ==
    IF i > Len(ex_items) THEN <<>>
    ELSE (IF ItemEmitted(extractor, ex_items[i]) THEN <<i>> ELSE <<>>) \o EmittedPositions(i + 1)

\* the text by which a record shows the item it was made from
RecordText(e, r) == IF e = "_parse_agency_index" THEN r.agency ELSE r.description
SourceText(e, item) == IF e = "_parse_agency_index" THEN item.name ELSE item.title

\* C22: in each extractor a failure while parsing one item skips only that
\* item: the extraction goes on and every other item that parses
\* successfully is emitted, in payload order.
C22_ItemFailureSkipsItem ==
    ex_pc = "out" =>
        LET at == EmittedPositions(1)
        IN /\ ~ex_out.raised
           /\ Len(ex_out.opps) = Len(at)
           /\ \A k \in 1..Len(at) :
                RecordText(extractor, ex_out.opps[k]) = SourceText(extractor, ex_items[at[k]])

\* a link without href stood between two links that were both emitted
C22_Witness ==
    /\ ex_pc = "out"
    /\ extractor = "_parse_agency_index"
    /\ Len(ex_items) = 3
    /\ ItemFails(extractor, ex_items[2])
    /\ Len(ex_out.opps) = 2

(***************************************************************************)
(* The abbreviation rule of the office validator.                          *)
(***************************************************************************)
\* the entries of the abbreviation table that hit the office
AbbrevHits == {i \in 1..Len(AbbrevMap) :
                Contains(office, AbbrevMap[i][1]) /\ ~Contains(office, AbbrevMap[i][2])}

AbbrevWarnings == {k \in 1..Len(vresult.warnings) : vresult.warnings[k].message = "Found abbreviation"}

\* C23: for each entry of the abbreviation table whose abbreviation occurs in
\* the office while its expansion does not, _validate_office emits exactly
\* one warning and a suggested fix substituting the expansion, and each
\* such hit lowers the confidence by 0.05.
C23_AbbreviationHits ==
    (vo_pc = "out" /\ office # <<>>) =>
        LET others == Len(vresult.warnings) - Cardinality(AbbrevWarnings)
            c == 100 - 10 * others - 5 * Cardinality(AbbrevHits)
        IN /\ \A i \in AbbrevHits :
                /\ Cardinality({k \in AbbrevWarnings : vresult.warnings[k].arg = AbbrevMap[i][1]}) = 1
                /\ office \in DOMAIN vresult.suggested_fixes
                /\ Contains(vresult.suggested_fixes[office], AbbrevMap[i][2])
           /\ Cardinality(AbbrevWarnings) = Cardinality(AbbrevHits)
           /\ vresult.confidence_score = (IF c > 0 THEN c ELSE 0)

\* what the validator does with the hits: one warning each, 0.1 off the
\* confidence for each, and a single suggested fix, that of the last hit
AbbreviationsAsCoded ==
    (vo_pc = "out" /\ office # <<>>) =>
        LET c == 100 - 10 * Len(vresult.warnings)
        IN /\ \A i \in AbbrevHits :
                Cardinality({k \in AbbrevWarnings : vresult.warnings[k].arg = AbbrevMap[i][1]}) = 1
           /\ Cardinality(AbbrevWarnings) = Cardinality(AbbrevHits)
           /\ vresult.confidence_score = (IF c > 0 THEN c ELSE 0)
           /\ AbbrevHits # {} =>
                LET last == CHOOSE i \in AbbrevHits : \A j \in AbbrevHits : j <= i
                IN vresult.suggested_fixes =
                       [k \in {office} |-> Replace(office, AbbrevMap[last][1], AbbrevMap[last][2])]

(***************************************************************************)
(* The scan and its deadline.                                              *)
(***************************************************************************)
\* C24: when the scan deadline is exceeded, the sources not yet completed are
\* abandoned, no further request or retry being issued for them, and the
\* records collected from the completed sources are deduplicated and
\* returned.
C24_DeadlineAbandons ==
    /\ elapsed > TIMEOUT_TOTAL => pc \notin {"request", "sleep"}
    /\ pc = "done" => result = Dedup(Extracted)

\* what the scan does: it always runs through all sources, whatever time
\* has passed, and returns what the completed ones delivered
ScanRunsThrough ==
    pc = "done" =>
        /\ \A s \in Sources : requests[s] # <<>>
        /\ result = Dedup(Extracted)

(***************************************************************************)
(* The agency cache.                                                       *)
(***************************************************************************)
\* C25 as stated: the agency cache only grows: details stored for a URL are
\* never evicted or replaced, so the details a call has returned for a URL are
\* the cache's entry for that URL from then on, and later calls get that entry.
C25_CacheOnlyGrows ==
    \A c \in Callers :
        (fd_pc[c] = "done" /\ fd_ret[c] # None) =>
            /\ fd_url[c] \in DOMAIN agency_cache
            /\ agency_cache[fd_url[c]] = fd_ret[c]

\* what the code keeps of it: no entry is ever removed, an entry changes only
\* by the store of a call that was in flight for its URL, and a call for a
\* cached URL returns the entry at once and issues no request
CacheAsCoded ==
    [][/\ DOMAIN agency_cache \subseteq DOMAIN agency_cache'
       /\ \A u \in DOMAIN agency_cache :
            agency_cache'[u] # agency_cache[u] =>
                \E c \in Callers : fd_pc[c] = "text" /\ fd_url[c] = u /\ fd_pc'[c] = "done"
       /\ \A c \in Callers :
            (fd_pc[c] = "idle" /\ fd_pc'[c] # "idle" /\ fd_url'[c] \in DOMAIN agency_cache) =>
                /\ fd_pc'[c] = "done"
                /\ fd_ret'[c] = agency_cache[fd_url'[c]]
                /\ fd_requests' = fd_requests
                /\ agency_cache' = agency_cache]_vars

(***************************************************************************)
(* Requests of one scan to one source.                                     *)
(***************************************************************************)
\* C26 as stated: within one scan no request is issued to a source after a
\* request to that source has returned HTTP 200.
C26_NoRequestAfter200 ==
    \A s \in Sources :
        \A i \in 1..(Len(requests[s]) - 1) : ~IsOk(requests[s][i])

\* what the code does: a 200 is followed by another request to the source
\* exactly when the extractor raised on its payload, which the extractor of
\* challenge.gov does on every payload
RetriesAsCoded ==
    /\ \A s \in Sources :
        \A i \in 1..(Len(requests[s]) - 1) :
            IsOk(requests[s][i]) => s = "challenge.gov"
    /\ pc = "done" =>
        /\ Len(requests["challenge.gov"]) = LAST_ATTEMPT + 1
        /\ source_opps["challenge.gov"] = <<>>

(***************************************************************************)
(* The deduplicator's output as a selection of its input.                  *)
(***************************************************************************)
\* the position in the input of a record of the input; the records of an
\* input are told apart by their ids
PosIn(r) == CHOOSE i \in 1..Len(dd_in) : dd_in[i] = r

\* C28: every record of the output of _deduplicate_opportunities is a record
\* of the input, unmodified, and none is there twice, so the output is not
\* longer than the input; output records with equal posted_date, the records
\* without one among themselves included, stand in their input order.
C28_SelectionStable ==
    dd_pc # "in" =>
        /\ \A j \in 1..Len(dd_out) : \E i \in 1..Len(dd_in) : dd_out[j] = dd_in[i]
        /\ \A j, k \in 1..Len(dd_out) : j # k => dd_out[j] # dd_out[k]
        /\ Len(dd_out) <= Len(dd_in)
        /\ \A j, k \in 1..Len(dd_out) :
            (j < k /\ SortKey(dd_out[j]) = SortKey(dd_out[k])) =>
                PosIn(dd_out[j]) < PosIn(dd_out[k])

\* a dated record was moved in front of two records without a date, one of
\* them without the key and one with None, which kept their order
C28_Witness ==
    /\ dd_pc = "once"
    /\ Len(dd_in) = 3
    /\ "posted_date" \notin DOMAIN dd_in[1]
    /\ HasDate(dd_in[2])
    /\ "posted_date" \in DOMAIN dd_in[3] /\ dd_in[3].posted_date = NoneVal
    /\ dd_out = <<dd_in[2], dd_in[1], dd_in[3]>>

(***************************************************************************)
(* Successive calls of score_lead on one LeadScorer.                       *)
(***************************************************************************)
\* C27 as stated: over any sequence of score_lead calls on one LeadScorer,
\* calls that raise included, the analysis a call returns has the "Existing
\* strong relationship" note only if the bonus fired for that call's lead.
C27_NoCarryOver ==
    (sc_pc = "returned" /\ HasNote("Existing strong relationship", SpecialUniversity)) =>
        BonusFires

\* what the code keeps of it: a call that returns leaves no partnership
\* detail behind, so a detail is carried into a call only from calls that
\* raised, and it is the detail of a lead for which the bonus fired
DetailsAsCoded ==
    /\ sc_pc = "returned" => partnership_details = NoDetails
    /\ (sc_pc = "raised" /\ BonusFires) => partnership_details # NoDetails
    /\ partnership_details # NoDetails =>
        /\ partnership_details.university = SpecialUniversity
        /\ partnership_details.relationship_type = "existing"

(***************************************************************************)
(* Failed and concurrent calls of _fetch_agency_details.                   *)
(***************************************************************************)
\* the call of c ends in this step with a status other than 200 or an exception
EndsInFailure(c) == InFlight(c) /\ fd_pc'[c] = "done" /\ fd_status'[c] # "200"

\* C29: a call of _fetch_agency_details that ends with a non-200 status or an
\* exception returns None and leaves the agency cache as it was; None is
\* never an entry of the cache, and a call for a URL that is not in the
\* cache issues a request.
C29_FailuresNotCached ==
    [][/\ \A c \in Callers :
            EndsInFailure(c) => fd_ret'[c] = None /\ agency_cache' = agency_cache
       /\ \A u \in DOMAIN agency_cache' : agency_cache'[u] # None
       /\ \A c \in Callers :
            (fd_pc[c] = "idle" /\ fd_pc'[c] # "idle" /\ fd_url'[c] \notin DOMAIN agency_cache) =>
                /\ fd_pc'[c] = "get"
                /\ fd_requests'[fd_url'[c]] = fd_requests[fd_url'[c]] + 1]_vars

\* a call for a URL has failed and returned None, the URL is not cached, and
\* a call made after it for the same URL has its own request under way
C29_Witness ==
    \E c, d \in Callers :
        /\ fd_pc[c] = "done" /\ fd_status[c] \in {"500", "raised"} /\ fd_ret[c] = None
        /\ fd_pc[d] = "get" /\ fd_url[d] = fd_url[c] /\ c \notin fd_with[d]
        /\ fd_url[c] \notin DOMAIN agency_cache
        /\ fd_requests[fd_url[c]] = 2

\* C30 as stated: of the calls for one uncached URL that are in flight
\* together only one has a request under way, and the calls that were in
\* flight together return the same details.
C30_SingleFlight ==
    \A c, d \in Callers :
        c # d =>
            /\ (InFlight(c) /\ InFlight(d)) => fd_url[c] # fd_url[d]
            /\ (fd_pc[c] = "done" /\ fd_pc[d] = "done" /\ d \in fd_with[c]) =>
                    fd_ret[c] = fd_ret[d]

\* what the code does: every call that misses the cache issues its own
\* request, whatever other calls are in flight, and returns the details of
\* its own response or None
RequestPerMiss ==
    /\ \A u \in Urls :
        Cardinality({c \in Callers : InFlight(c) /\ fd_url[c] = u}) <= fd_requests[u]
    /\ \A c \in Callers :
        fd_pc[c] = "done" =>
            \/ fd_ret[c] = None /\ fd_status[c] \in {"500", "raised"}
            \/ fd_ret[c] \in {DetailsOf[page] : page \in Pages} /\ fd_status[c] \in {"", "200"}

=============================================================================
